---- MODULE Spec2Model ----
(***************************************************************************)
(* State-machine model of the JSON/XML-to-diagram visualizer (App.tsx):    *)
(* the rebuild pipeline, search, whole-graph collapse toggle and the       *)
(* handlers around them.                                                   *)
(*                                                                         *)
(* Texts are sequences of lexical tokens, scalar values and keys are atoms *)
(* (TLA+ strings) whose characters are given by CharsOf, so that trimming, *)
(* parsing, lower-casing and substring search are computed, not assumed.   *)
(***************************************************************************)
EXTENDS Integers, Sequences, FiniteSets, TLC

\* ------------------------------------------------------------------------
\* Bounds of the model
\* ------------------------------------------------------------------------
MaxQueryLen == 2
MaxPendingRefresh == 2
MaxValueLen == 3
MaxValueRuns == 2
MaxDocumentSize == 4
MaxThrottleTimers == 2
MaxClipboardWrites == 2

\* ------------------------------------------------------------------------
\* Generic sequence helpers
\* ------------------------------------------------------------------------
RECURSIVE Flatten(_)
Flatten(ss) == IF ss = <<>> THEN <<>> ELSE Head(ss) \o Flatten(Tail(ss))

RECURSIVE JoinWith(_, _)
JoinWith(ss, sep) ==
  IF ss = <<>> THEN <<>>
  ELSE IF Len(ss) = 1 THEN Head(ss)
  ELSE Head(ss) \o sep \o JoinWith(Tail(ss), sep)

Range(s) == {s[i] : i \in 1..Len(s)}

\* ------------------------------------------------------------------------
\* Characters of the atoms used as keys and scalar values
\* ------------------------------------------------------------------------
CharsOf ==
  [x \in {"a", "b", "c", "0", "1", "Hi", "x", "true", ""} |->
     CASE x = "a"    -> <<"a">>
       [] x = "b"    -> <<"b">>
       [] x = "c"    -> <<"c">>
       [] x = "0"    -> <<"0">>
       [] x = "1"    -> <<"1">>
       [] x = "Hi"   -> <<"H", "i">>
       [] x = "x"    -> <<"x">>
       [] x = "true" -> <<"t", "r", "u", "e">>
       [] x = ""     -> <<>>]

\* String.prototype.toLowerCase on one character
LowerChar(c) ==
  CASE c = "H" -> "h"
    [] c = "A" -> "a"
    [] c = "I" -> "i"
    [] c = "T" -> "t"
    [] c = "R" -> "r"
    [] c = "U" -> "u"
    [] c = "E" -> "e"
    [] c = "F" -> "f"
    [] c = "L" -> "l"
    [] c = "S" -> "s"
    [] OTHER   -> c

toLowerCase(s) == [i \in 1..Len(s) |-> LowerChar(s[i])]

\* String.prototype.includes: q occurs in s as a contiguous substring
includes(s, q) ==
  \E i \in 0..(Len(s) - Len(q)) : \A j \in 1..Len(q) : s[i + j] = q[j]

\* String.prototype.trim on a sequence whose whitespace is the element " "
RECURSIVE TrimLeft(_)
TrimLeft(s) == IF s # <<>> /\ Head(s) = " " THEN TrimLeft(Tail(s)) ELSE s

RECURSIVE TrimRight(_)
TrimRight(s) ==
  IF s # <<>> /\ s[Len(s)] = " " THEN TrimRight(SubSeq(s, 1, Len(s) - 1)) ELSE s

trim(s) == TrimRight(TrimLeft(s))

\* ------------------------------------------------------------------------
\* JSON values: [t, s, kids]; kids is a sequence of [k, v] members
\* ------------------------------------------------------------------------
Scalar(t, s) == [t |-> t, s |-> s, kids |-> <<>>]
Obj(kids)    == [t |-> "obj", s |-> "", kids |-> kids]
Arr(kids)    == [t |-> "arr", s |-> "", kids |-> kids]
Member(k, v) == [k |-> k, v |-> v]
IsScalar(v)  == v.t \notin {"obj", "arr"}

\* JSON tokens
JsonStringToks == {"\"a\"", "\"b\"", "\"c\"", "\"Hi\"", "\"x\"", "\"\"", "\"0\"", "\"1\""}
JsonScalarToks == JsonStringToks \cup {"1", "true"}

Unquote(tok) ==
  CASE tok = "\"a\""  -> "a"
    [] tok = "\"b\""  -> "b"
    [] tok = "\"c\""  -> "c"
    [] tok = "\"Hi\"" -> "Hi"
    [] tok = "\"x\""  -> "x"
    [] tok = "\"\""   -> ""
    [] tok = "\"0\""  -> "0"
    [] tok = "\"1\""  -> "1"

Quote(atom) ==
  CASE atom = "a"  -> "\"a\""
    [] atom = "b"  -> "\"b\""
    [] atom = "c"  -> "\"c\""
    [] atom = "Hi" -> "\"Hi\""
    [] atom = "x"  -> "\"x\""
    [] atom = ""   -> "\"\""
    [] atom = "0"  -> "\"0\""
    [] atom = "1"  -> "\"1\""

ScalarOfToken(tok) ==
  CASE tok \in JsonStringToks -> Scalar("str", Unquote(tok))
    [] tok = "1"              -> Scalar("num", "1")
    [] tok = "true"           -> Scalar("bool", "true")

IndexAtom(i) == IF i = 0 THEN "0" ELSE "1"

ParseFail == [ok |-> FALSE, v |-> Scalar("str", ""), n |-> 0]
ParseOk(v, n) == [ok |-> TRUE, v |-> v, n |-> n]

RECURSIVE ParseJsonValue(_, _)
RECURSIVE ParseJsonMembers(_, _, _)
RECURSIVE ParseJsonElements(_, _, _)

\* value := scalar | "{" members "}" | "[" elements "]"
ParseJsonValue(s, i) ==
  IF i > Len(s) THEN ParseFail
  ELSE IF s[i] \in JsonScalarToks THEN ParseOk(ScalarOfToken(s[i]), i + 1)
  ELSE IF s[i] = "{" THEN
         IF i + 1 <= Len(s) /\ s[i + 1] = "}" THEN ParseOk(Obj(<<>>), i + 2)
         ELSE ParseJsonMembers(s, i + 1, <<>>)
  ELSE IF s[i] = "[" THEN
         IF i + 1 <= Len(s) /\ s[i + 1] = "]" THEN ParseOk(Arr(<<>>), i + 2)
         ELSE ParseJsonElements(s, i + 1, <<>>)
  ELSE ParseFail

ParseJsonMembers(s, i, acc) ==
  IF i + 1 > Len(s) THEN ParseFail
  ELSE IF s[i] \notin JsonStringToks \/ s[i + 1] # ":" THEN ParseFail
  ELSE LET r == ParseJsonValue(s, i + 2) IN
       IF ~r.ok \/ r.n > Len(s) THEN ParseFail
       ELSE LET acc2 == Append(acc, Member(Unquote(s[i]), r.v)) IN
            IF s[r.n] = "," THEN ParseJsonMembers(s, r.n + 1, acc2)
            ELSE IF s[r.n] = "}" THEN ParseOk(Obj(acc2), r.n + 1)
            ELSE ParseFail

ParseJsonElements(s, i, acc) ==
  LET r == ParseJsonValue(s, i) IN
  IF ~r.ok \/ r.n > Len(s) THEN ParseFail
  ELSE LET acc2 == Append(acc, Member(IndexAtom(Len(acc)), r.v)) IN
       IF s[r.n] = "," THEN ParseJsonElements(s, r.n + 1, acc2)
       ELSE IF s[r.n] = "]" THEN ParseOk(Arr(acc2), r.n + 1)
       ELSE ParseFail

NotSpace(tok) == tok # " "

\* JSON.parse: [ok, v]; ok = FALSE stands for the SyntaxError it throws
JSONparse(text) ==
  LET s == SelectSeq(text, NotSpace)
      r == ParseJsonValue(s, 1)
  IN IF r.ok /\ r.n = Len(s) + 1 THEN [ok |-> TRUE, v |-> r.v]
     ELSE [ok |-> FALSE, v |-> ParseFail.v]

\* JSON.stringify(value, null, 2); every run of white space is one " " token
RECURSIVE JSONstringify(_)
RECURSIVE StringifyMembers(_, _)
JSONstringify(v) ==
  IF v.t = "str" THEN <<Quote(v.s)>>
  ELSE IF IsScalar(v) THEN <<v.s>>
  ELSE IF v.kids = <<>> THEN (IF v.t = "obj" THEN <<"{", "}">> ELSE <<"[", "]">>)
  ELSE (IF v.t = "obj" THEN <<"{", " ">> ELSE <<"[", " ">>)
       \o StringifyMembers(v.kids, v.t = "obj")
       \o (IF v.t = "obj" THEN <<" ", "}">> ELSE <<" ", "]">>)

StringifyMembers(kids, withKeys) ==
  LET m    == Head(kids)
      this == (IF withKeys THEN <<Quote(m.k), ":", " ">> ELSE <<>>) \o JSONstringify(m.v)
  IN IF Len(kids) = 1 THEN this
     ELSE this \o <<",", " ">> \o StringifyMembers(Tail(kids), withKeys)

\* ------------------------------------------------------------------------
\* XML (fast-xml-parser) on the token level
\* ------------------------------------------------------------------------
TagAtoms == {"a", "b", "c", "0", "1", "root"}

OpenTag(k) ==
  CASE k = "a" -> "<a>" [] k = "b" -> "<b>" [] k = "c" -> "<c>"
    [] k = "0" -> "<0>" [] k = "1" -> "<1>" [] k = "root" -> "<root>"

CloseTag(k) ==
  CASE k = "a" -> "</a>" [] k = "b" -> "</b>" [] k = "c" -> "</c>"
    [] k = "0" -> "</0>" [] k = "1" -> "</1>" [] k = "root" -> "</root>"

OpenTags  == {OpenTag(k) : k \in TagAtoms}
CloseTags == {CloseTag(k) : k \in TagAtoms}
TagName(tok) == CHOOSE k \in TagAtoms : tok \in {OpenTag(k), CloseTag(k)}

\* String.prototype.startsWith("<") on the first token of a text
startsWithLt(text) == text # <<>> /\ Head(text) \in (OpenTags \cup CloseTags)

\* parseTagValue: numeric and boolean looking text becomes a number / boolean
XmlTextValue(tok) ==
  CASE tok = "1"    -> Scalar("num", "1")
    [] tok = "true" -> Scalar("bool", "true")
    [] OTHER        -> Scalar("str", tok)

\* a repeated tag name turns the member into an array of the values
AddXmlMember(acc, k, v) ==
  IF \E i \in 1..Len(acc) : acc[i].k = k
  THEN LET i   == CHOOSE j \in 1..Len(acc) : acc[j].k = k
           old == acc[i].v
           new == IF old.t = "arr"
                  THEN Arr(Append(old.kids, Member(IndexAtom(Len(old.kids)), v)))
                  ELSE Arr(<<Member("0", old), Member("1", v)>>)
       IN [acc EXCEPT ![i] = Member(k, new)]
  ELSE Append(acc, Member(k, v))

RECURSIVE ParseXmlElements(_, _, _)
RECURSIVE ParseXmlBody(_, _)

\* the child elements from position i up to the enclosing close tag
ParseXmlElements(s, i, acc) ==
  IF i > Len(s) \/ s[i] \in CloseTags THEN [kids |-> acc, n |-> i]
  ELSE IF s[i] \in OpenTags THEN
         LET r    == ParseXmlBody(s, i + 1)
             next == IF r.n <= Len(s) /\ s[r.n] \in CloseTags THEN r.n + 1 ELSE r.n
         IN ParseXmlElements(s, next, AddXmlMember(acc, TagName(s[i]), r.v))
  ELSE ParseXmlElements(s, i + 1, acc)

\* the content of one element: text, nothing, or child elements
ParseXmlBody(s, i) ==
  IF i > Len(s) \/ s[i] \in CloseTags THEN [v |-> Scalar("str", ""), n |-> i]
  ELSE IF s[i] \notin OpenTags THEN [v |-> XmlTextValue(s[i]), n |-> i + 1]
  ELSE LET r == ParseXmlElements(s, i, <<>>) IN [v |-> Obj(r.kids), n |-> r.n]

\* XMLParser.parse: the object of the top-level elements
XMLparse(text) == Obj(ParseXmlElements(SelectSeq(text, NotSpace), 1, <<>>).kids)

\* XMLBuilder.build: one element per key, one element per array item
RECURSIVE XMLbuild(_)
RECURSIVE XmlBuildMember(_, _)
XmlBuildMember(k, v) ==
  IF IsScalar(v) THEN <<OpenTag(k), v.s, CloseTag(k)>>
  ELSE IF v.t = "arr" THEN Flatten([i \in 1..Len(v.kids) |-> XmlBuildMember(k, v.kids[i].v)])
  ELSE <<OpenTag(k)>> \o XMLbuild(v) \o <<CloseTag(k)>>

XMLbuild(v) ==
  IF IsScalar(v) THEN <<>>
  ELSE Flatten([i \in 1..Len(v.kids) |-> XmlBuildMember(v.kids[i].k, v.kids[i].v)])

\* ------------------------------------------------------------------------
\* Tree Builder (JsonDiagramParser.processData)
\* ------------------------------------------------------------------------
RootId == <<"main-root">>
FoldMarker == "#"

Pair(k, v) == [k |-> k, v |-> v]

\* the text a Leaf carries as data.actualdata: one "key: value" line per pair
LeafText(pairs) ==
  JoinWith([i \in 1..Len(pairs) |->
              IF pairs[i].k = "" THEN CharsOf[pairs[i].v]
              ELSE CharsOf[pairs[i].k] \o <<":", " ">> \o CharsOf[pairs[i].v]],
           <<"\n">>)

RootNode ==
  [id |-> RootId, kind |-> "Root", key |-> "", pairs |-> <<>>,
   childCount |-> 0, actualdata |-> <<>>]

ContainerNode(id, key, v) ==
  [id |-> id, kind |-> "Container", key |-> key, pairs |-> <<>>,
   childCount |-> Len(v.kids), actualdata |-> <<>>]

LeafNode(id, pairs) ==
  [id |-> id, kind |-> "Leaf", key |-> "", pairs |-> pairs,
   childCount |-> 0, actualdata |-> LeafText(pairs)]

\* variant: the edge points from the child to its parent
Connector_Reversed(sourceID, targetID) ==
  [id |-> <<"connector">> \o targetID, sourceID |-> targetID, targetID |-> sourceID]

Connector(sourceID, targetID) ==
  [id |-> <<"connector">> \o targetID, sourceID |-> sourceID, targetID |-> targetID]

NoGraph == [nodes |-> <<>>, connectors |-> <<>>]
GraphCat(g, h) ==
  [nodes |-> g.nodes \o h.nodes, connectors |-> g.connectors \o h.connectors]

RECURSIVE BuildChildren(_, _)
RECURSIVE BuildEach(_, _, _)

\* variant: scalars are never folded, every child gets a node of its own
BuildChildren_NoFold(pid, v) ==
  IF v.kids = <<>> THEN NoGraph
  ELSE BuildEach(pid, v.kids, 1)

\* the nodes below the Container v that sits at id pid (grouping rule)
BuildChildren(pid, v) ==
  IF v.kids = <<>> THEN NoGraph
  ELSE IF \A i \in 1..Len(v.kids) : IsScalar(v.kids[i].v) THEN
    LET lid == Append(pid, FoldMarker) IN
    [nodes      |-> <<LeafNode(lid, [i \in 1..Len(v.kids) |->
                                       Pair(v.kids[i].k, v.kids[i].v.s)])>>,
     connectors |-> <<Connector(pid, lid)>>]
  ELSE BuildEach(pid, v.kids, 1)

\* no folding: one node per child, depth first, in document order
BuildEach(pid, kids, i) ==
  IF i > Len(kids) THEN NoGraph
  ELSE LET m    == kids[i]
           cid  == Append(pid, m.k)
           this == IF IsScalar(m.v)
                   THEN [nodes      |-> <<LeafNode(cid, <<Pair(m.k, m.v.s)>>)>>,
                         connectors |-> <<Connector(pid, cid)>>]
                   ELSE GraphCat([nodes      |-> <<ContainerNode(cid, m.k, m.v)>>,
                                  connectors |-> <<Connector(pid, cid)>>],
                                 BuildChildren(cid, m.v))
       IN GraphCat(this, BuildEach(pid, kids, i + 1))

\* build(value): the synthetic Root plus the graph of the document
processData(v) ==
  IF IsScalar(v)
  THEN LET lid == Append(RootId, FoldMarker) IN
       [nodes      |-> <<RootNode, LeafNode(lid, <<Pair("", v.s)>>)>>,
        connectors |-> <<Connector(RootId, lid)>>]
  ELSE GraphCat([nodes |-> <<RootNode>>, connectors |-> <<>>],
                BuildChildren(RootId, v))

\* ------------------------------------------------------------------------
\* processEditorContent: [threw, data]
\* ------------------------------------------------------------------------
Threw == [threw |-> TRUE, data |-> NoGraph]
Returned(g) == [threw |-> FALSE, data |-> g]

processEditorContent(textContent, editorType) ==
  IF editorType = "json"
  THEN LET parsedJsonObject == JSONparse(textContent) IN
       IF parsedJsonObject.ok THEN Returned(processData(parsedJsonObject.v)) ELSE Threw
  ELSE IF ~startsWithLt(trim(textContent)) THEN Threw
  ELSE LET wrappedXmlContent   == <<"<root>">> \o textContent \o <<"</root>">>
           convertedJsonObject == XMLparse(wrappedXmlContent)
           rootMember          == convertedJsonObject.kids[1].v
           \* convertedJsonObject.root || {}: the empty string is falsy
           extractedRootData   == IF rootMember = Scalar("str", "") THEN Obj(<<>>)
                                  ELSE rootMember
       IN Returned(processData(extractedRootData))

\* ------------------------------------------------------------------------
\* Inputs: the texts a user can put into the editor, the search box values
\* ------------------------------------------------------------------------
JsonFlat    == <<"{", "\"a\"", ":", "1", ",", "\"b\"", ":", "\"Hi\"", "}">>
JsonNested  == <<"{", " ", "\"a\"", ":", " ", "{", " ", "\"b\"", ":", " ", "\"Hi\"", " ", "}",
                 ",", " ", "\"c\"", ":", " ", "\"Hi\"", ",", " ", "\"b\"", ":", " ", "\"Hi\"",
                 " ", "}">>
JsonBroken  == <<"{", "\"a\"", ":">>
XmlFlat     == <<" ", "<a>", "1", "</a>", "<b>", "Hi", "</b>">>

EditorTexts == {JsonFlat, JsonNested, JsonBroken, XmlFlat}

\* JSON.stringify(sampleData, null, 2), the text the editor is mounted with
InitialJsonContent == JsonNested

QueryChars == {"b", "h", "I", " "}
RECURSIVE SeqsUpTo(_, _)
SeqsUpTo(S, n) ==
  IF n = 0 THEN {<<>>}
  ELSE LET shorter == SeqsUpTo(S, n - 1) IN
       shorter \cup {Append(q, c) : q \in {r \in shorter : Len(r) = n - 1}, c \in S}
SearchInputs == SeqsUpTo(QueryChars, MaxQueryLen)

\* ------------------------------------------------------------------------
\* The live diagram: node styling and the node-defaulting hook
\* ------------------------------------------------------------------------
DefaultStyle == [fill |-> "nodeFillColor", stroke |-> "nodeStrokeColor", strokeWidth |-> "1.5"]
MatchedStyle == [fill |-> "highlightFillColor", stroke |-> "highlightStrokeColor", strokeWidth |-> "1.5"]
FocusedStyle == [fill |-> "highlightFocusColor", stroke |-> "highlightStrokeColor", strokeWidth |-> "2"]

\* DIAGRAM_CONSTANTS
TEXT_LINE_HEIGHT           == 16
ANNOTATIONS_PADDING        == 10
EXPAND_COLLAPSE_ICON_WIDTH == 36
MAIN_ROOT_SIZE             == 40
MIN_NODE_WIDTH             == 50
MIN_NODE_HEIGHT            == 40

LAYOUT_ORIENTATIONS == <<"LeftToRight", "TopToBottom", "RightToLeft", "BottomToTop">>

Max(a, b) == IF a >= b THEN a ELSE b

\* calculateTextWidth: canvas measureText of the monospace font, in whole pixels
CharWidth == 7
calculateTextWidth(textContent) == CharWidth * Len(textContent)

\* the text of a Container's count annotation
DigitChar(n) ==
  CASE n = 0 -> "0" [] n = 1 -> "1" [] n = 2 -> "2" [] n = 3 -> "3" [] n = 4 -> "4"
    [] n = 5 -> "5" [] n = 6 -> "6" [] n = 7 -> "7" [] n = 8 -> "8" [] n = 9 -> "9"
CountText(n) == <<"[", DigitChar(n), "]">>

\* icon offsets in tenths of the node size; a fresh node carries the
\* diagram's default icon offset (0.5, 1)
Offset(x, y) == [x |-> x, y |-> y]
DefaultIconOffset == Offset(5, 10)

IsDigit(c) == c \in {"0", "1", "2", "3", "4", "5", "6", "7", "8", "9"}

\* isNaN(parseFloat(s)): white space is skipped, then a number must begin
parseFloatIsNaN(s) ==
  LET t == TrimLeft(s) IN
  ~(t # <<>> /\ (IsDigit(t[1]) \/ (t[1] = "." /\ Len(t) >= 2 /\ IsDigit(t[2]))))

\* isNaN(Number(s)): the trimmed text is empty (0) or a whole decimal literal
NumberIsNaN(s) ==
  LET t == trim(s) IN
  ~(\/ t = <<>>
    \/ /\ \A i \in 1..Len(t) : IsDigit(t[i]) \/ t[i] = "."
       /\ \E i \in 1..Len(t) : IsDigit(t[i])
       /\ Cardinality({i \in 1..Len(t) : t[i] = "."}) <= 1)

TrueText  == <<"t", "r", "u", "e">>
FalseText == <<"f", "a", "l", "s", "e">>

\* determineValueTextColor
determineValueTextColor(rawValueText) ==
  IF ~parseFloatIsNaN(rawValueText) THEN "numericColor"
  ELSE IF toLowerCase(rawValueText) = TrueText \/ toLowerCase(rawValueText) = FalseText
  THEN (IF toLowerCase(rawValueText) = TrueText THEN "booleanColor" ELSE "red")
  ELSE "textValueColor"

startsWithQuote(s) == s # <<>> /\ s[1] = "\""
endsWithQuote(s)   == s # <<>> /\ s[Len(s)] = "\""

\* formatValueForDisplay
formatValueForDisplay(rawValueText) ==
  LET isStringValue == /\ NumberIsNaN(rawValueText)
                       /\ toLowerCase(rawValueText) # TrueText
                       /\ toLowerCase(rawValueText) # FalseText
  IN IF ~isStringValue
     THEN (IF toLowerCase(rawValueText) = TrueText \/ toLowerCase(rawValueText) = FalseText
           THEN toLowerCase(rawValueText)
           ELSE rawValueText)
     ELSE IF trim(rawValueText) # <<>>
     THEN (IF startsWithQuote(rawValueText) /\ endsWithQuote(rawValueText)
           THEN rawValueText
           ELSE <<"\"">> \o rawValueText \o <<"\"">>)
     ELSE rawValueText

\* updateExpandCollapseIconPosition: a node always has both icon objects
updateExpandCollapseIconPosition(nodeModel, layoutOrientation) ==
  IF layoutOrientation = "LeftToRight" \/ layoutOrientation = "RightToLeft"
  THEN LET o == Offset(5, IF layoutOrientation = "RightToLeft" THEN 0 ELSE 10) IN
       [nodeModel EXCEPT !.expandIconOffset = o, !.collapseIconOffset = o]
  ELSE IF layoutOrientation = "TopToBottom" \/ layoutOrientation = "BottomToTop"
  THEN [nodeModel EXCEPT !.expandIconOffset = Offset(10, 5),
                         !.collapseIconOffset = Offset(10, 5)]
  ELSE nodeModel

\* the text of pair i's Key annotation and the raw text of its Value annotation
KeyText(pair)   == CharsOf[pair.k]
ValueText(pair) == CharsOf[pair.v]

\* variant: Leaf nodes are given the icon allowance too
iconAllowance_Always(isLeafNode) == EXPAND_COLLAPSE_ICON_WIDTH * 2

\* the room left for the expand/collapse icons
iconAllowance(isLeafNode) == IF ~isLeafNode THEN EXPAND_COLLAPSE_ICON_WIDTH * 2 ELSE 0

\* calculateNodeDimensions: a Leaf is as wide as its widest "key   value"
\* line (one unpaired annotation is measured alone and counts no line), a
\* Container as wide as key and count text together plus two icon widths
calculateNodeDimensions(nodeData, isLeafNode) ==
  LET paired == isLeafNode /\ \A i \in 1..Len(nodeData.pairs) : nodeData.pairs[i].k # ""
      lines  == [i \in 1..Len(nodeData.pairs) |->
                   IF paired
                   THEN calculateTextWidth(KeyText(nodeData.pairs[i]) \o <<" ", " ", " ">>
                                           \o nodeData.content[i])
                   ELSE calculateTextWidth(IF nodeData.content[i] = <<>> THEN <<" ">>
                                           ELSE nodeData.content[i])]
      maximumTextWidth ==
        IF isLeafNode
        THEN (IF lines = <<>> THEN 0
              ELSE CHOOSE w \in Range(lines) : \A v \in Range(lines) : v <= w)
        ELSE calculateTextWidth(CharsOf[nodeData.key] \o CountText(nodeData.childCount))
      totalLinesCount == IF isLeafNode THEN (IF paired THEN Len(nodeData.pairs) ELSE 0) ELSE 1
  IN [width  |-> Max(maximumTextWidth + ANNOTATIONS_PADDING + iconAllowance(isLeafNode),
                     MIN_NODE_WIDTH),
      height |-> Max(totalLinesCount * TEXT_LINE_HEIGHT + ANNOTATIONS_PADDING * 2,
                     MIN_NODE_HEIGHT)]

\* a vertical offset, as a fraction of the node height
Fraction(num, den) == [num |-> num, den |-> den]

\* the offset an annotation has until it is given one: the middle of the node
DefaultAnnotationOffsetY == Fraction(1, 2)

\* variant: the lines are spread over the whole height, the last at the bottom
verticalOffset_NoMargin(currentLineNumber, textLinesCount) ==
  IF textLinesCount > 0 THEN Fraction(currentLineNumber, textLinesCount)
  ELSE Fraction(currentLineNumber, 2)

\* currentLineNumber * verticalSpacing, the spacing being 1 / (lines + 1), or
\* 0.5 when the node has no Key annotation
verticalOffset(currentLineNumber, textLinesCount) ==
  IF textLinesCount > 0 THEN Fraction(currentLineNumber, textLinesCount + 1)
  ELSE Fraction(currentLineNumber, 2)

\* configureLeafNodeAnnotations: a Key and the Value that follows it are put on
\* the same line; every Value annotation that follows a Key is coloured by its
\* current text, which is then replaced by its display form. A Value with no
\* annotation before it is styled only: its offset and text stay as they are
configureLeafNodeAnnotations(nodeModel) ==
  LET textLinesCount ==
        Cardinality({i \in 1..Len(nodeModel.pairs) : nodeModel.pairs[i].k # ""})
  IN
  [nodeModel EXCEPT
     !.keyOffsetY = [i \in 1..Len(nodeModel.pairs) |->
                       IF nodeModel.pairs[i].k # ""
                       THEN verticalOffset(i, textLinesCount)
                       ELSE nodeModel.keyOffsetY[i]],
     !.valueOffsetY = [i \in 1..Len(nodeModel.pairs) |->
                         IF nodeModel.pairs[i].k # ""
                         THEN verticalOffset(i, textLinesCount)
                         ELSE nodeModel.valueOffsetY[i]],
     !.valueColor = [i \in 1..Len(nodeModel.pairs) |->
                       IF nodeModel.pairs[i].k # ""
                       THEN determineValueTextColor(nodeModel.content[i])
                       ELSE "textValueColor"],
     !.content    = [i \in 1..Len(nodeModel.pairs) |->
                       IF nodeModel.pairs[i].k # ""
                       THEN formatValueForDisplay(nodeModel.content[i])
                       ELSE nodeModel.content[i]]]

\* configureNonLeafNodeAnnotations: the count annotation is shown or hidden
configureNonLeafNodeAnnotations(nodeModel, showCounts) ==
  [nodeModel EXCEPT !.countVisible = showCounts]

\* variant: the icons are configured without being positioned
configureExpandCollapseIcons_NoPosition(nodeModel, orientation) ==
  [nodeModel EXCEPT !.expandIcon = "Minus"]

\* configureExpandCollapseIcons: position both icons for the diagram's
\* orientation, then set the icon properties (shape Minus / Plus); setting the
\* properties of a node's icon keeps the offset the icon already has
configureExpandCollapseIcons(nodeModel, orientation) ==
  [updateExpandCollapseIconPosition(nodeModel, orientation) EXCEPT !.expandIcon = "Minus"]

\* configureNode; env holds what the closure reads: the two display options
\* and the diagram's layout orientation
configureNode(nodeModel, isLeafNode, isMainRootNode, env) ==
  LET dims  == IF isMainRootNode
               THEN [width |-> MAIN_ROOT_SIZE, height |-> MAIN_ROOT_SIZE]
               ELSE calculateNodeDimensions(nodeModel, isLeafNode)
      sized == [nodeModel EXCEPT !.width = dims.width, !.height = dims.height]
      annotated == IF isMainRootNode THEN sized
                   ELSE IF isLeafNode THEN configureLeafNodeAnnotations(sized)
                   ELSE configureNonLeafNodeAnnotations(sized, env.counts)
  IN IF ~isLeafNode /\ ~isMainRootNode /\ env.icons
     THEN configureExpandCollapseIcons(annotated, env.orientation)
     ELSE [annotated EXCEPT !.expandIcon = "None"]

getDefaultNodeConfiguration(nodeModel, env) ==
  configureNode(nodeModel, nodeModel.kind = "Leaf", nodeModel.id = RootId, env)

\* a node as the diagram holds it once it is added: expanded, rendered with
\* the style configureNode gives it
AddElement(built, env) ==
  getDefaultNodeConfiguration(
    [id |-> built.id, kind |-> built.kind, key |-> built.key, pairs |-> built.pairs,
     childCount |-> built.childCount, actualdata |-> built.actualdata,
     isExpanded |-> TRUE, expandIcon |-> "None", style |-> DefaultStyle,
     expandIconOffset |-> DefaultIconOffset, collapseIconOffset |-> DefaultIconOffset,
     width |-> 0, height |-> 0,
     content |-> [i \in 1..Len(built.pairs) |-> ValueText(built.pairs[i])],
     valueColor |-> [i \in 1..Len(built.pairs) |-> "textValueColor"],
     keyOffsetY |-> [i \in 1..Len(built.pairs) |-> DefaultAnnotationOffsetY],
     valueOffsetY |-> [i \in 1..Len(built.pairs) |-> DefaultAnnotationOffsetY],
     countVisible |-> TRUE],
    env)

AddElements(builtNodes, env) ==
  [i \in 1..Len(builtNodes) |-> AddElement(builtNodes[i], env)]

\* the part of a live node the Tree Builder produced
Built(n) ==
  [id |-> n.id, kind |-> n.kind, key |-> n.key, pairs |-> n.pairs,
   childCount |-> n.childCount, actualdata |-> n.actualdata]

\* diagram.refresh(): every node runs through the hook again and is re-rendered
RefreshedNodes(ns, env) ==
  [i \in 1..Len(ns) |->
     [getDefaultNodeConfiguration(ns[i], env) EXCEPT !.style = DefaultStyle]]

inEdges(ns, cs, id)  == {cs[i].id : i \in {j \in 1..Len(cs) : cs[j].targetID = id}}
outEdges(ns, cs, id) == {cs[i].id : i \in {j \in 1..Len(cs) : cs[j].sourceID = id}}

\* ------------------------------------------------------------------------
\* State
\* ------------------------------------------------------------------------
VARIABLES
  editorTextContent,                \* useState, App.tsx:73
  selectedEditorType,               \* useState, App.tsx:74
  isEditorContentValid,             \* useState, App.tsx:75
  isLoadingSpinnerVisible,          \* useState, App.tsx:78
  nodes,                            \* diagramComponentRef.current.nodes
  connectors,                       \* diagramComponentRef.current.connectors
  totalNodeCount,                   \* useState, App.tsx:89
  isEntireGraphCollapsed,           \* useState, App.tsx:92
  shouldDisplayExpandCollapseIcons, \* useState, App.tsx:93
  shouldShowChildItemsCount,        \* useState, App.tsx:94
  shouldShowGridLines,              \* useState, App.tsx:95
  searchResultMatches,              \* useState, App.tsx:98
  currentSearchMatchIndex,          \* useState, App.tsx:99
  searchCounter,                    \* Toolbar useState, NavMenu.tsx:269
  showCounter,                      \* Toolbar useState, NavMenu.tsx:270
  pendingRefresh,                   \* zero-delay timers not yet run
  currentLayoutOrientationIndex,    \* useState, App.tsx:102
  layoutOrientation,                \* diagramComponentRef.current.layout.orientation
  document,                         \* a parsed document handed to the Tree Builder
  rawValueText,                     \* the text of one Value annotation
  valueTextColor,                   \* the colour it is given
  valueDisplayText,                 \* the text it holds / is displayed as
  valueRuns,                        \* history: times the annotation was configured
  rotationCount,                    \* history: rotations so far, mod 4
  lastOption,                       \* history: the view option toggled last
  toggleChangedNodes,               \* history: the collapse toggle changed a node
  isDraggingRef,                    \* Resizer useRef, ExportDialog.tsx:147
  throttleTimeoutRef,               \* Resizer useRef, ExportDialog.tsx:148 (0 is null)
  throttleTimers,                   \* the Resizer's setTimeout callbacks not yet run
  leftPanelWidth,                   \* .left-panel style.width in px (-1: not set)
  cancelledUpdate,                  \* history: the last mouse up cancelled an update
  isNodeDetailsDialogOpen,          \* useState, App.tsx:80 (the dialog's isVisible)
  closeEffectPending,               \* the dialog's [isVisible] effect has yet to run
  copyStates,                       \* NodeDetailsDialog useState: content, path
  timeoutRefs,                      \* NodeDetailsDialog useRef: timer id per type (0: none)
  feedbackTimers,                   \* the dialog's setTimeout callbacks not yet run
  clipboardWrites,                  \* clipboard writes in flight, per type
  lastOp,                           \* history: the handler that ran last
  lastRebuild,                      \* history: what its rebuild attempt did
  lastBranch,                       \* history: branch the collapse toggle took
  lastParsed,                       \* history: last input that parsed, and its type
  lastQuery,                        \* history: query of the search that ran last
  exceptionEscaped,                 \* history: the last handler threw
  toggleCount                       \* history: collapse toggles so far, mod 2

vars == <<editorTextContent, selectedEditorType, isEditorContentValid,
          isLoadingSpinnerVisible, nodes, connectors, totalNodeCount,
          isEntireGraphCollapsed, shouldDisplayExpandCollapseIcons,
          shouldShowChildItemsCount, shouldShowGridLines, searchResultMatches,
          currentSearchMatchIndex, searchCounter, showCounter, pendingRefresh,
          currentLayoutOrientationIndex, layoutOrientation, document, rawValueText,
          valueTextColor, valueDisplayText, valueRuns, rotationCount, lastOption,
          toggleChangedNodes,
          isDraggingRef, throttleTimeoutRef, throttleTimers, leftPanelWidth,
          cancelledUpdate,
          isNodeDetailsDialogOpen, closeEffectPending, copyStates, timeoutRefs,
          feedbackTimers, clipboardWrites,
          lastOp, lastRebuild, lastBranch, lastParsed, lastQuery, exceptionEscaped,
          toggleCount>>

editorVars  == <<editorTextContent, selectedEditorType>>
viewVars    == <<shouldDisplayExpandCollapseIcons, shouldShowChildItemsCount,
                 shouldShowGridLines>>
searchVars  == <<searchResultMatches, currentSearchMatchIndex>>
toggleVars  == <<isEntireGraphCollapsed, lastBranch, toggleCount>>
layoutVars  == <<currentLayoutOrientationIndex, layoutOrientation, rotationCount>>
valueVars   == <<rawValueText, valueTextColor, valueDisplayText, valueRuns>>
resizerVars == <<isDraggingRef, throttleTimeoutRef, throttleTimers, leftPanelWidth>>
dialogVars  == <<isNodeDetailsDialogOpen, closeEffectPending, copyStates, timeoutRefs,
                 feedbackTimers, clipboardWrites>>
panelVars   == <<resizerVars, cancelledUpdate, dialogVars>>
otherVars   == <<layoutVars, valueVars, document, lastOption, panelVars>>

\* what the node-defaulting hook reads when the diagram calls it
hookEnv ==
  [icons       |-> shouldDisplayExpandCollapseIcons,
   counts      |-> shouldShowChildItemsCount,
   orientation |-> layoutOrientation]

\* ------------------------------------------------------------------------
\* Search helpers
\* ------------------------------------------------------------------------
\* variant: only the fill is restored, the highlight stroke stays
resetSearchHighlights_FillOnly(ns) ==
  [i \in 1..Len(ns) |-> [ns[i] EXCEPT !.style.fill = DefaultStyle.fill]]

\* resetSearchHighlights: every rendered node back to the theme style
resetSearchHighlights(ns) == [i \in 1..Len(ns) |-> [ns[i] EXCEPT !.style = DefaultStyle]]

\* variant: the node text is not lower-cased before the comparison
findSearchMatches_CaseSensitive(ns, searchQuery) ==
  LET hit(n) == includes(n.actualdata, toLowerCase(searchQuery))
      ids    == [i \in 1..Len(ns) |-> IF hit(ns[i]) THEN <<ns[i].id>> ELSE <<>>]
  IN Flatten(ids)

\* findSearchMatches: ids of the nodes whose actualdata contains the query
findSearchMatches(ns, searchQuery) ==
  LET hit(n) == includes(toLowerCase(n.actualdata), toLowerCase(searchQuery))
      ids    == [i \in 1..Len(ns) |-> IF hit(ns[i]) THEN <<ns[i].id>> ELSE <<>>]
  IN Flatten(ids)

\* focusOnSearchMatch: restyle the rendered nodes named in matchedNodeIds
focusOnSearchMatch(ns, matchedNodeIds, targetMatchIndex) ==
  [i \in 1..Len(ns) |->
     IF \E m \in 1..Len(matchedNodeIds) : matchedNodeIds[m] = ns[i].id
     THEN LET m == CHOOSE k \in 1..Len(matchedNodeIds) : matchedNodeIds[k] = ns[i].id
          IN [ns[i] EXCEPT !.style = IF m - 1 = targetMatchIndex THEN FocusedStyle
                                      ELSE MatchedStyle]
     ELSE ns[i]]

\* variant: the diagram is cleared before the text is parsed
parseAndProcessEditorContent_ClearFirst(textContent, editorType) ==
  LET parsedDiagramData == processEditorContent(textContent, editorType) IN
  IF parsedDiagramData.threw
  THEN [nodes |-> <<>>, connectors |-> <<>>, totalNodeCount |-> totalNodeCount,
        valid |-> FALSE, spinner |-> TRUE, searchCounter |-> searchCounter,
        showCounter |-> showCounter, outcome |-> "threw"]
  ELSE [nodes |-> AddElements(parsedDiagramData.data.nodes, hookEnv),
        connectors |-> parsedDiagramData.data.connectors,
        totalNodeCount |-> Len(parsedDiagramData.data.nodes),
        valid |-> TRUE, spinner |-> FALSE, searchCounter |-> <<0, 0>>,
        showCounter |-> FALSE, outcome |-> "built"]

\* variant: the new elements are added without clearing the diagram
parseAndProcessEditorContent_NoClear(textContent, editorType) ==
  LET parsedDiagramData == processEditorContent(textContent, editorType) IN
  IF parsedDiagramData.threw
  THEN [nodes |-> nodes, connectors |-> connectors, totalNodeCount |-> totalNodeCount,
        valid |-> FALSE, spinner |-> TRUE, searchCounter |-> searchCounter,
        showCounter |-> showCounter, outcome |-> "threw"]
  ELSE [nodes |-> nodes \o AddElements(parsedDiagramData.data.nodes,
                                        hookEnv),
        connectors |-> connectors \o parsedDiagramData.data.connectors,
        totalNodeCount |-> Len(parsedDiagramData.data.nodes),
        valid |-> TRUE, spinner |-> FALSE, searchCounter |-> <<0, 0>>,
        showCounter |-> FALSE, outcome |-> "built"]

\* variant: every built id carries the node count of the diagram it replaces
parseAndProcessEditorContent_CountedIds(textContent, editorType) ==
  LET parsedDiagramData == processEditorContent(textContent, editorType)
      mark(id) == Append(id, DigitChar(totalNodeCount))
      marked   == [nodes |-> [i \in 1..Len(parsedDiagramData.data.nodes) |->
                                [parsedDiagramData.data.nodes[i] EXCEPT !.id = mark(@)]],
                   connectors |-> [i \in 1..Len(parsedDiagramData.data.connectors) |->
                                     [parsedDiagramData.data.connectors[i] EXCEPT
                                        !.id = mark(@), !.sourceID = mark(@),
                                        !.targetID = mark(@)]]]
  IN
  IF parsedDiagramData.threw
  THEN [nodes |-> nodes, connectors |-> connectors, totalNodeCount |-> totalNodeCount,
        valid |-> FALSE, spinner |-> TRUE, searchCounter |-> searchCounter,
        showCounter |-> showCounter, outcome |-> "threw"]
  ELSE [nodes |-> AddElements(marked.nodes, hookEnv),
        connectors |-> marked.connectors,
        totalNodeCount |-> Len(marked.nodes),
        valid |-> TRUE, spinner |-> FALSE, searchCounter |-> <<0, 0>>,
        showCounter |-> FALSE, outcome |-> "built"]

\* ------------------------------------------------------------------------
\* parseAndProcessEditorContent: the values it leaves behind
\* ------------------------------------------------------------------------
parseAndProcessEditorContent(textContent, editorType) ==
  LET parsedDiagramData == processEditorContent(textContent, editorType) IN
  IF parsedDiagramData.threw
  THEN \* catch: the status bar shows invalid, nothing else is touched
       [nodes |-> nodes, connectors |-> connectors, totalNodeCount |-> totalNodeCount,
        valid |-> FALSE, spinner |-> TRUE, searchCounter |-> searchCounter,
        showCounter |-> showCounter, outcome |-> "threw"]
  ELSE IF Len(parsedDiagramData.data.nodes) # 0 \/ Len(parsedDiagramData.data.connectors) # 0
  THEN \* clear the diagram, add the new elements, clearToolbarSearchInput
       [nodes |-> AddElements(parsedDiagramData.data.nodes, hookEnv),
        connectors |-> parsedDiagramData.data.connectors,
        totalNodeCount |-> Len(parsedDiagramData.data.nodes),
        valid |-> TRUE, spinner |-> FALSE, searchCounter |-> <<0, 0>>,
        showCounter |-> FALSE, outcome |-> "built"]
  ELSE [nodes |-> nodes, connectors |-> connectors, totalNodeCount |-> totalNodeCount,
        valid |-> isEditorContentValid, spinner |-> TRUE, searchCounter |-> searchCounter,
        showCounter |-> showCounter, outcome |-> "empty"]

\* the display options and the layout orientation the component starts with
InitialEnv == [icons |-> TRUE, counts |-> TRUE, orientation |-> "LeftToRight"]

\* the Resizer as constructed: not dragging, no throttled update scheduled
ResizerIdle ==
  /\ isDraggingRef = FALSE
  /\ throttleTimeoutRef = 0
  /\ throttleTimers = {}
  /\ leftPanelWidth = -1
  /\ cancelledUpdate = FALSE

CopyTypes == {"content", "path"}

\* the Node Details dialog as constructed: closed, no feedback shown
DialogIdle ==
  /\ isNodeDetailsDialogOpen = FALSE
  /\ closeEffectPending = FALSE
  /\ copyStates = [type \in CopyTypes |-> FALSE]
  /\ timeoutRefs = [type \in CopyTypes |-> 0]
  /\ feedbackTimers = {}
  /\ clipboardWrites = [type \in CopyTypes |-> 0]

\* the state of everything the mount effect and the value slice do not write
InitFlags ==
  /\ ResizerIdle
  /\ DialogIdle
  /\ selectedEditorType = "json"
  /\ isEditorContentValid = TRUE
  /\ isLoadingSpinnerVisible = FALSE
  /\ isEntireGraphCollapsed = FALSE
  /\ shouldDisplayExpandCollapseIcons = TRUE
  /\ shouldShowChildItemsCount = TRUE
  /\ shouldShowGridLines = TRUE
  /\ searchResultMatches = <<>>
  /\ currentSearchMatchIndex = 0
  /\ searchCounter = <<0, 0>>
  /\ showCounter = FALSE
  /\ pendingRefresh = 0
  /\ currentLayoutOrientationIndex = 0
  /\ layoutOrientation = "LeftToRight"
  /\ rotationCount = 0
  /\ lastOption = "none"
  /\ toggleChangedNodes = FALSE
  /\ lastBranch = "none"
  /\ lastQuery = <<>>
  /\ exceptionEscaped = FALSE
  /\ toggleCount = 0

\* no Value annotation is being looked at
ValueIdle ==
  /\ rawValueText = <<>>
  /\ valueTextColor = "none"
  /\ valueDisplayText = <<>>
  /\ valueRuns = 0

\* the component mounted with the sample document: the mount effect has set
\* the editor text and built the diagram, the layout effect has refreshed it
Mounted ==
  LET g == processData(JSONparse(InitialJsonContent).v) IN
  /\ InitFlags
  /\ editorTextContent = InitialJsonContent
  /\ nodes = RefreshedNodes(AddElements(g.nodes, InitialEnv), InitialEnv)
  /\ connectors = g.connectors
  /\ totalNodeCount = Len(g.nodes)
  /\ lastOp = "mount"
  /\ lastRebuild = "built"
  /\ lastParsed = [text |-> InitialJsonContent, type |-> "json"]
  /\ document = Obj(<<>>)

Init == Mounted /\ ValueIdle

\* handleEditorContentChange: the editor reports a new text
handleEditorContentChange(newEditorValue) ==
  LET r == parseAndProcessEditorContent(newEditorValue, selectedEditorType) IN
  /\ editorTextContent' = newEditorValue
  /\ isEditorContentValid' = r.valid
  /\ isLoadingSpinnerVisible' = r.spinner
  /\ nodes' = RefreshedNodes(r.nodes, hookEnv)
  /\ connectors' = r.connectors
  /\ totalNodeCount' = r.totalNodeCount
  /\ searchCounter' = r.searchCounter
  /\ showCounter' = r.showCounter
  /\ lastOp' = "edit"
  /\ lastRebuild' = r.outcome
  /\ lastParsed' = IF processEditorContent(newEditorValue, selectedEditorType).threw
                   THEN lastParsed
                   ELSE [text |-> newEditorValue, type |-> selectedEditorType]
  /\ lastQuery' = <<>>
  /\ exceptionEscaped' = FALSE
  /\ toggleChangedNodes' = FALSE
  /\ UNCHANGED <<selectedEditorType, viewVars, searchVars, toggleVars, pendingRefresh, otherVars>>

\* convertEditorContent: [threw, text]
convertEditorContent(content, fromType, toType) ==
  IF toType = "json" /\ fromType = "xml"
  THEN [threw |-> FALSE, text |-> JSONstringify(XMLparse(content))]
  ELSE IF toType = "xml" /\ fromType = "json"
  THEN LET parsedJsonData == JSONparse(content) IN
       IF parsedJsonData.ok THEN [threw |-> FALSE, text |-> XMLbuild(parsedJsonData.v)]
       ELSE [threw |-> TRUE, text |-> content]
  ELSE [threw |-> FALSE, text |-> content]

\* variant: the editor is emptied when the conversion fails
conversionErrorOutcome_ClearsEditor == [text |-> <<>>, valid |-> FALSE]

\* the catch of handleEditorTypeSwitch: only the validity flag is written
conversionErrorOutcome == [text |-> editorTextContent, valid |-> FALSE]

\* handleEditorTypeSwitch: the editor type dropdown changes to newEditorType
handleEditorTypeSwitch(newEditorType) ==
  LET c == convertEditorContent(editorTextContent, selectedEditorType, newEditorType)
      r == parseAndProcessEditorContent(c.text, newEditorType)
  IN
  /\ newEditorType # selectedEditorType
  /\ selectedEditorType' = newEditorType
  /\ lastOp' = "switch"
  /\ lastQuery' = <<>>
  /\ exceptionEscaped' = FALSE
  /\ toggleChangedNodes' = FALSE
  /\ IF c.threw
     THEN /\ isEditorContentValid' = conversionErrorOutcome.valid
          /\ editorTextContent' = conversionErrorOutcome.text
          /\ lastRebuild' = "none"
          /\ UNCHANGED <<isLoadingSpinnerVisible, nodes, connectors,
                         totalNodeCount, searchCounter, showCounter, lastParsed>>
     ELSE /\ editorTextContent' = c.text
          /\ isEditorContentValid' = r.valid
          /\ isLoadingSpinnerVisible' = r.spinner
          /\ nodes' = RefreshedNodes(r.nodes, hookEnv)
          /\ connectors' = r.connectors
          /\ totalNodeCount' = r.totalNodeCount
          /\ searchCounter' = r.searchCounter
          /\ showCounter' = r.showCounter
          /\ lastRebuild' = r.outcome
          /\ lastParsed' = IF processEditorContent(c.text, newEditorType).threw
                           THEN lastParsed
                           ELSE [text |-> c.text, type |-> newEditorType]
  /\ UNCHANGED <<viewVars, searchVars, toggleVars, pendingRefresh, otherVars>>

\* Toolbar.handleSearchInput -> handleDiagramSearch
handleDiagramSearch(inputValue) ==
  LET searchQuery  == trim(inputValue)
      cleared      == resetSearchHighlights(nodes)
      foundMatches == findSearchMatches(nodes, searchQuery)
  IN
  /\ showCounter' = (Len(searchQuery) > 0)
  /\ IF searchQuery = <<>>
     THEN /\ nodes' = cleared
          /\ searchCounter' = <<0, 0>>
          /\ UNCHANGED searchVars
     ELSE /\ searchResultMatches' = foundMatches
          /\ currentSearchMatchIndex' = 0
          /\ IF Len(foundMatches) > 0
             THEN /\ nodes' = focusOnSearchMatch(cleared, foundMatches, 0)
                  /\ searchCounter' = <<1, Len(foundMatches)>>
             ELSE /\ nodes' = cleared
                  /\ searchCounter' = <<0, 0>>
  /\ lastOp' = IF searchQuery = <<>> THEN "searchEmpty" ELSE "search"
  /\ lastQuery' = searchQuery
  /\ lastRebuild' = "none"
  /\ exceptionEscaped' = FALSE
  /\ toggleChangedNodes' = FALSE
  /\ UNCHANGED <<editorVars, isEditorContentValid, isLoadingSpinnerVisible, connectors,
                 totalNodeCount, viewVars, toggleVars, pendingRefresh, lastParsed, otherVars>>

\* variant: the cursor stops at the last match instead of wrapping
nextMatchIndex_NoWrap(current, total) ==
  IF current + 1 < total THEN current + 1 ELSE current

\* the index an advance moves to
nextMatchIndex(current, total) == (current + 1) % total

\* variant: the toolbar is handed the zero-based cursor
advanceCounter_ZeroBased(next, total) == <<next, total>>

\* the (current, total) pair an advance reports to the toolbar
advanceCounter(next, total) == <<next + 1, total>>

\* handleEnterKeyNavigation: an Enter keydown anywhere in the document
handleEnterKeyNavigation ==
  /\ IF Len(searchResultMatches) > 0
     THEN LET next == nextMatchIndex(currentSearchMatchIndex, Len(searchResultMatches)) IN
          /\ currentSearchMatchIndex' = next
          /\ nodes' = focusOnSearchMatch(nodes, searchResultMatches, next)
          /\ searchCounter' = advanceCounter(next, Len(searchResultMatches))
     ELSE UNCHANGED <<currentSearchMatchIndex, nodes, searchCounter>>
  /\ lastOp' = "enter"
  /\ lastQuery' = <<>>
  /\ lastRebuild' = "none"
  /\ exceptionEscaped' = FALSE
  /\ toggleChangedNodes' = FALSE
  /\ UNCHANGED <<editorVars, isEditorContentValid, isLoadingSpinnerVisible, connectors,
                 totalNodeCount, viewVars, searchResultMatches, showCounter, toggleVars,
                 pendingRefresh, lastParsed, otherVars>>

\* variant: only Container nodes are expanded again
ExpandAll_ContainersOnly(ns) ==
  [i \in 1..Len(ns) |->
     IF ns[i].isExpanded = FALSE /\ ns[i].kind = "Container"
     THEN [ns[i] EXCEPT !.isExpanded = TRUE]
     ELSE ns[i]]

\* expand-all branch: every node with isExpanded = false becomes expanded
ExpandAll(ns) ==
  [i \in 1..Len(ns) |-> IF ns[i].isExpanded = FALSE THEN [ns[i] EXCEPT !.isExpanded = TRUE]
                        ELSE ns[i]]

rootLevelNodes(ns, cs) == {i \in 1..Len(ns) : inEdges(ns, cs, ns[i].id) = {}}

\* variant: the collapse reaches every node below a root-level node
CollapseAll_Deep(ns, cs) ==
  [i \in 1..Len(ns) |->
     IF inEdges(ns, cs, ns[i].id) # {} THEN [ns[i] EXCEPT !.isExpanded = FALSE]
     ELSE ns[i]]

\* variant: every root-level node collapses itself, icon or not
CollapseAll_RootsThemselves(ns, cs) ==
  [i \in 1..Len(ns) |->
     IF inEdges(ns, cs, ns[i].id) = {} THEN [ns[i] EXCEPT !.isExpanded = FALSE]
     ELSE ns[i]]

\* collapse-all branch: root-level nodes with an icon collapse themselves,
\* root-level nodes without one collapse the targets of their out-edges
CollapseAll(ns, cs) ==
  LET roots   == rootLevelNodes(ns, cs)
      noIcon  == {r \in roots : ns[r].expandIcon = "None"}
      targets == {cs[j].targetID : j \in {k \in 1..Len(cs) :
                     \E r \in noIcon : cs[k].id \in outEdges(ns, cs, ns[r].id)}}
  IN [i \in 1..Len(ns) |->
        IF (i \in roots /\ i \notin noIcon) \/ ns[i].id \in targets
        THEN [ns[i] EXCEPT !.isExpanded = FALSE]
        ELSE ns[i]]

\* variant: the branch is derived from the nodes' actual expansion state
toggleBranch_FromNodes(flag, ns) ==
  IF \E i \in 1..Len(ns) : ~ns[i].isExpanded THEN "expand" ELSE "collapse"

\* the branch handleGraphCollapseToggle takes
toggleBranch(flag, ns) == IF flag THEN "expand" ELSE "collapse"

\* handleGraphCollapseToggle
handleGraphCollapseToggle ==
  /\ nodes' = IF toggleBranch(isEntireGraphCollapsed, nodes) = "expand"
              THEN ExpandAll(nodes)
              ELSE CollapseAll(nodes, connectors)
  /\ lastBranch' = toggleBranch(isEntireGraphCollapsed, nodes)
  /\ isEntireGraphCollapsed' = ~isEntireGraphCollapsed
  /\ toggleCount' = (toggleCount + 1) % 2
  /\ lastOp' = "toggle"
  /\ lastQuery' = <<>>
  /\ lastRebuild' = "none"
  /\ exceptionEscaped' = FALSE
  /\ toggleChangedNodes' = (nodes' # nodes)
  /\ UNCHANGED <<editorVars, isEditorContentValid, isLoadingSpinnerVisible, connectors,
                 totalNodeCount, viewVars, searchVars, searchCounter, showCounter,
                 pendingRefresh, lastParsed, otherVars>>

\* variant: a click on a node's icon brings the whole-graph flag back in line
NodeIconClick_SyncsFlag(i) ==
  /\ nodes[i].expandIcon # "None"
  /\ nodes' = [nodes EXCEPT ![i].isExpanded = ~nodes[i].isExpanded]
  /\ isEntireGraphCollapsed' = \E j \in 1..Len(nodes) : ~nodes'[j].isExpanded
  /\ lastOp' = "iconClick"
  /\ lastQuery' = <<>>
  /\ lastRebuild' = "none"
  /\ exceptionEscaped' = FALSE
  /\ toggleChangedNodes' = FALSE
  /\ UNCHANGED <<editorVars, isEditorContentValid, isLoadingSpinnerVisible, connectors,
                 totalNodeCount, viewVars, searchVars, searchCounter, showCounter,
                 lastBranch, toggleCount, pendingRefresh, lastParsed, otherVars>>

\* the user clicks the expand/collapse icon of one node
NodeIconClick(i) ==
  /\ nodes[i].expandIcon # "None"
  /\ nodes' = [nodes EXCEPT ![i].isExpanded = ~nodes[i].isExpanded]
  /\ lastOp' = "iconClick"
  /\ lastQuery' = <<>>
  /\ lastRebuild' = "none"
  /\ exceptionEscaped' = FALSE
  /\ toggleChangedNodes' = FALSE
  /\ UNCHANGED <<editorVars, isEditorContentValid, isLoadingSpinnerVisible, connectors,
                 totalNodeCount, viewVars, searchVars, searchCounter, showCounter,
                 toggleVars, pendingRefresh, lastParsed, otherVars>>

\* variant: a rotation skips an orientation
nextOrientationIndex_TwoSteps(index) == (index + 2) % Len(LAYOUT_ORIENTATIONS)

\* the index a rotation moves to
nextOrientationIndex(index) == (index + 1) % Len(LAYOUT_ORIENTATIONS)

\* variant: only the horizontal orientations move the icons
repositionIcons_HorizontalOnly(ns, orientation) ==
  [i \in 1..Len(ns) |->
     IF orientation \in {"LeftToRight", "RightToLeft"}
     THEN updateExpandCollapseIconPosition(ns[i], orientation)
     ELSE ns[i]]

\* the forEach of handleDiagramLayoutRotation over the diagram's nodes
repositionIcons(ns, orientation) ==
  [i \in 1..Len(ns) |-> updateExpandCollapseIconPosition(ns[i], orientation)]

\* handleDiagramLayoutRotation
handleDiagramLayoutRotation ==
  LET nextIndex            == nextOrientationIndex(currentLayoutOrientationIndex)
      newLayoutOrientation == LAYOUT_ORIENTATIONS[nextIndex + 1]
  IN
  /\ currentLayoutOrientationIndex' = nextIndex
  /\ layoutOrientation' = newLayoutOrientation
  /\ nodes' = repositionIcons(nodes, newLayoutOrientation)
  /\ rotationCount' = (rotationCount + 1) % 4
  /\ lastOp' = "rotate"
  /\ lastQuery' = <<>>
  /\ lastRebuild' = "none"
  /\ exceptionEscaped' = FALSE
  /\ toggleChangedNodes' = FALSE
  /\ UNCHANGED <<editorVars, isEditorContentValid, isLoadingSpinnerVisible, connectors,
                 totalNodeCount, viewVars, searchVars, searchCounter, showCounter,
                 toggleVars, pendingRefresh, lastParsed, valueVars, document, lastOption,
                 panelVars>>

ViewOptionIds == {"view-grid", "view-count", "expand-collapse"}

\* variant: every view option schedules a re-layout
scheduledRefreshes_Always(viewOptionId) == 1

\* the zero-delay timers one call of handleViewOptionsToggle starts
scheduledRefreshes(viewOptionId) ==
  IF viewOptionId \in {"view-count", "expand-collapse"} THEN 1 ELSE 0

\* handleViewOptionsToggle: the flag is flipped now, the re-layout is left to
\* a timer that runs after the handler and the re-render it causes
handleViewOptionsToggle(viewOptionId) ==
  /\ pendingRefresh + scheduledRefreshes(viewOptionId) <= MaxPendingRefresh
  /\ shouldShowGridLines' =
       IF viewOptionId = "view-grid" THEN ~shouldShowGridLines ELSE shouldShowGridLines
  /\ shouldShowChildItemsCount' =
       IF viewOptionId = "view-count" THEN ~shouldShowChildItemsCount
       ELSE shouldShowChildItemsCount
  /\ shouldDisplayExpandCollapseIcons' =
       IF viewOptionId = "expand-collapse" THEN ~shouldDisplayExpandCollapseIcons
       ELSE shouldDisplayExpandCollapseIcons
  /\ pendingRefresh' = pendingRefresh + scheduledRefreshes(viewOptionId)
  /\ lastOption' = viewOptionId
  /\ lastOp' = "viewToggle"
  /\ lastQuery' = <<>>
  /\ lastRebuild' = "none"
  /\ exceptionEscaped' = FALSE
  /\ toggleChangedNodes' = FALSE
  /\ UNCHANGED <<editorVars, isEditorContentValid, isLoadingSpinnerVisible, nodes,
                 connectors, totalNodeCount, searchVars, searchCounter, showCounter,
                 toggleVars, lastParsed, layoutVars, valueVars, document, panelVars>>

\* the setTimeout callback of handleViewOptionsToggle: refreshDiagramLayout
DeferredRefresh ==
  /\ pendingRefresh > 0
  /\ pendingRefresh' = pendingRefresh - 1
  /\ nodes' = RefreshedNodes(nodes, hookEnv)
  /\ lastOp' = "deferredRefresh"
  /\ lastQuery' = <<>>
  /\ lastRebuild' = "none"
  /\ exceptionEscaped' = FALSE
  /\ toggleChangedNodes' = FALSE
  /\ UNCHANGED <<editorVars, isEditorContentValid, isLoadingSpinnerVisible, connectors,
                 totalNodeCount, viewVars, searchVars, searchCounter, showCounter,
                 toggleVars, lastParsed, otherVars>>

Next ==
  \/ \E t \in EditorTexts : handleEditorContentChange(t)
  \/ \E ty \in {"json", "xml"} : handleEditorTypeSwitch(ty)
  \/ \E q \in SearchInputs : handleDiagramSearch(q)
  \/ handleEnterKeyNavigation
  \/ handleGraphCollapseToggle
  \/ \E i \in 1..Len(nodes) : NodeIconClick(i)

Spec == Init /\ [][Next]_vars

\* the layout slice: rotation, display options and rebuilds
LayoutTexts == {JsonFlat, JsonNested}

NextLayout ==
  \/ handleDiagramLayoutRotation
  \/ \E id \in ViewOptionIds : handleViewOptionsToggle(id)
  \/ DeferredRefresh
  \/ \E t \in LayoutTexts : handleEditorContentChange(t)

SpecLayout == Init /\ [][NextLayout]_vars

\* the value slice: one Value annotation, configured by the hook
ValueChars == {"1", ".", "a", "\"", " "}
BooleanTexts ==
  {TrueText, <<"T", "r", "u", "e">>, <<"T", "R", "U", "E">>,
   FalseText, <<"F", "a", "l", "s", "e">>}
RawValueTexts == SeqsUpTo(ValueChars, MaxValueLen) \cup BooleanTexts

InitValues ==
  /\ Mounted
  /\ rawValueText \in RawValueTexts
  /\ valueDisplayText = rawValueText
  /\ valueTextColor = "none"
  /\ valueRuns = 0

\* configureValueAnnotation on a Value annotation that follows its Key: the
\* colour is taken from the text the annotation holds, then the text is
\* replaced by its display form
configureValueAnnotation ==
  /\ valueRuns < MaxValueRuns
  /\ valueTextColor' = determineValueTextColor(valueDisplayText)
  /\ valueDisplayText' = formatValueForDisplay(valueDisplayText)
  /\ valueRuns' = valueRuns + 1
  /\ UNCHANGED <<editorVars, isEditorContentValid, isLoadingSpinnerVisible, nodes,
                 connectors, totalNodeCount, viewVars, searchVars, searchCounter,
                 showCounter, toggleVars, pendingRefresh, lastParsed, layoutVars,
                 document, lastOption, rawValueText, lastOp, lastRebuild, lastQuery,
                 exceptionEscaped, toggleChangedNodes, panelVars>>

NextValues == configureValueAnnotation

SpecValues == InitValues /\ [][NextValues]_vars

\* the builder slice: the component is constructed, then mounts with a sample
\* document; the documents are all JSON values of up to MaxDocumentSize values
ObjectKeys == <<"a", "b", "c">>
SizeOneValues == {Scalar("num", "1"), Scalar("str", "Hi"), Obj(<<>>), Arr(<<>>)}

RECURSIVE ValuesOfSize(_)
RECURSIVE KidSeqs(_, _)
\* the sequences of at most maxLen values that hold total values altogether
KidSeqs(total, maxLen) ==
  IF total = 0 THEN {<<>>}
  ELSE IF maxLen = 0 THEN {}
  ELSE UNION {{<<v>> \o rest : v \in ValuesOfSize(k), rest \in KidSeqs(total - k, maxLen - 1)} :
                k \in 1..total}

ValuesOfSize(n) ==
  IF n = 1 THEN SizeOneValues
  ELSE {Obj([i \in 1..Len(ks) |-> Member(ObjectKeys[i], ks[i])]) :
          ks \in KidSeqs(n - 1, Len(ObjectKeys))}
       \cup {Arr([i \in 1..Len(ks) |-> Member(IndexAtom(i - 1), ks[i])]) :
               ks \in KidSeqs(n - 1, 2)}

Documents == UNION {ValuesOfSize(n) : n \in 1..MaxDocumentSize}

\* the state the useState initial values give, before any effect has run
Constructed ==
  /\ InitFlags
  /\ editorTextContent = <<>>
  /\ nodes = <<>>
  /\ connectors = <<>>
  /\ totalNodeCount = 0
  /\ lastOp = "construct"
  /\ lastRebuild = "none"
  /\ lastParsed = [text |-> <<>>, type |-> "json"]

InitBuilder == Constructed /\ ValueIdle /\ document \in Documents

\* the mount effect with document as the sample data, and the layout effect
\* that follows it
MountEffect ==
  LET initialJsonContent == JSONstringify(document)
      r == parseAndProcessEditorContent(initialJsonContent, "json")
  IN
  /\ lastOp = "construct"
  /\ editorTextContent' = initialJsonContent
  /\ isEditorContentValid' = r.valid
  /\ isLoadingSpinnerVisible' = r.spinner
  /\ nodes' = RefreshedNodes(r.nodes, hookEnv)
  /\ connectors' = r.connectors
  /\ totalNodeCount' = r.totalNodeCount
  /\ searchCounter' = r.searchCounter
  /\ showCounter' = r.showCounter
  /\ lastOp' = "mount"
  /\ lastRebuild' = r.outcome
  /\ lastParsed' = [text |-> initialJsonContent, type |-> "json"]
  /\ UNCHANGED <<selectedEditorType, viewVars, searchVars, toggleVars, pendingRefresh,
                 otherVars, lastQuery, exceptionEscaped, toggleChangedNodes>>

NextBuilder == MountEffect

SpecBuilder == InitBuilder /\ [][NextBuilder]_vars

\* everything the App component and its diagram hold, but for lastOp
appVars ==
  <<editorVars, isEditorContentValid, isLoadingSpinnerVisible, nodes, connectors,
    totalNodeCount, viewVars, searchVars, searchCounter, showCounter, toggleVars,
    pendingRefresh, lastParsed, layoutVars, valueVars, document, lastOption,
    lastRebuild, lastQuery, exceptionEscaped, toggleChangedNodes>>

\* ------------------------------------------------------------------------
\* Resizer: the splitter between the editor panel and the diagram panel
\* ------------------------------------------------------------------------
RIGHT_PANEL_MIN_PERCENTAGE_INVERSE == 2   \* the right panel keeps 1/2 of the width

\* event.clientX of a mouse move, and .main-grid's offsetWidth (even numbers)
MouseXs == {-2, 0, 3, 4, 6, 7, 9}
ContainerWidths == {10, 12, 16}
TimerIds == 1..(MaxThrottleTimers + 1)

Min(a, b) == IF a <= b THEN a ELSE b

calculateLeftPanelWidth(mouseX, containerWidth) ==
  LET rightPanelMinWidth == containerWidth \div RIGHT_PANEL_MIN_PERCENTAGE_INVERSE
      maxLeftWidth       == containerWidth - rightPanelMinWidth
  IN Min(Max(mouseX, 0), maxLeftWidth)

\* handleMouseDown on the splitter
handleMouseDown ==
  /\ isDraggingRef' = TRUE
  /\ lastOp' = "mouseDown"
  /\ cancelledUpdate' = FALSE
  /\ UNCHANGED <<throttleTimeoutRef, throttleTimers, leftPanelWidth, appVars, dialogVars>>

\* an update is already scheduled: the move is dropped
throttled(timeoutRef) == timeoutRef # 0

\* handleMouseMove: the document's mousemove listener
handleMouseMove(clientX) ==
  /\ lastOp' = "mouseMove"
  /\ cancelledUpdate' = FALSE
  /\ IF ~isDraggingRef \/ throttled(throttleTimeoutRef)
     THEN UNCHANGED <<throttleTimeoutRef, throttleTimers>>
     ELSE /\ Cardinality(throttleTimers) < MaxThrottleTimers
          /\ LET id == CHOOSE i \in TimerIds :
                         /\ i # throttleTimeoutRef
                         /\ \A t \in throttleTimers : t.id # i
             IN /\ throttleTimers' = throttleTimers \cup {[id |-> id, clientX |-> clientX]}
                /\ throttleTimeoutRef' = id
  /\ UNCHANGED <<isDraggingRef, leftPanelWidth, appVars, dialogVars>>

\* the throttled callback, THROTTLE_DELAY after the move that scheduled it;
\* .main-grid is part of the page for as long as the Resizer is
ThrottledUpdate ==
  \E t \in throttleTimers, containerWidth \in ContainerWidths :
    /\ throttleTimers' = throttleTimers \ {t}
    /\ leftPanelWidth' = calculateLeftPanelWidth(t.clientX, containerWidth)
    /\ throttleTimeoutRef' = 0
    /\ lastOp' = "throttledUpdate"
    /\ cancelledUpdate' = FALSE
    /\ UNCHANGED <<isDraggingRef, appVars, dialogVars>>

\* variant: mouse up forgets the scheduled update without cancelling it
timersAfterClear_KeepsPending(timers, timeoutRef) == timers

\* clearTimeout(throttleTimeoutRef.current)
timersAfterClear(timers, timeoutRef) == {t \in timers : t.id # timeoutRef}

\* handleMouseUp: the document's mouseup listener
handleMouseUp ==
  /\ lastOp' = "mouseUp"
  /\ IF isDraggingRef
     THEN /\ isDraggingRef' = FALSE
          /\ IF throttleTimeoutRef # 0
             THEN /\ throttleTimers' = timersAfterClear(throttleTimers, throttleTimeoutRef)
                  /\ throttleTimeoutRef' = 0
             ELSE UNCHANGED <<throttleTimers, throttleTimeoutRef>>
     ELSE UNCHANGED <<isDraggingRef, throttleTimers, throttleTimeoutRef>>
  /\ cancelledUpdate' = (throttleTimers' # throttleTimers)
  /\ UNCHANGED <<leftPanelWidth, appVars, dialogVars>>

NextResizer ==
  \/ handleMouseDown
  \/ \E x \in MouseXs : handleMouseMove(x)
  \/ ThrottledUpdate
  \/ handleMouseUp

SpecResizer == Init /\ [][NextResizer]_vars

\* ------------------------------------------------------------------------
\* NodeDetailsDialog: copy buttons with a timed "copied" indicator
\* ------------------------------------------------------------------------
FeedbackTimerIds == 1..3
appAndResizerVars == <<appVars, resizerVars, cancelledUpdate>>

\* handleDiagramNodeClick on a node with data: the dialog is shown
handleDiagramNodeClick ==
  /\ ~closeEffectPending
  /\ isNodeDetailsDialogOpen' = TRUE
  /\ lastOp' = "nodeClick"
  /\ UNCHANGED <<closeEffectPending, copyStates, timeoutRefs, feedbackTimers,
                 clipboardWrites, appAndResizerVars>>

\* handleCopy up to its await: a copy button of the open dialog is clicked
\* and the clipboard write is started
handleCopy(type) ==
  /\ isNodeDetailsDialogOpen
  /\ clipboardWrites["content"] + clipboardWrites["path"] < MaxClipboardWrites
  /\ clipboardWrites' = [clipboardWrites EXCEPT ![type] = @ + 1]
  /\ lastOp' = "copyClick"
  /\ UNCHANGED <<isNodeDetailsDialogOpen, closeEffectPending, copyStates, timeoutRefs,
                 feedbackTimers, appAndResizerVars>>

\* handleCopy after its await: the write has succeeded; the timer the ref
\* holds is cleared, the indicator is set and a new timer is started
ClipboardWriteResolved(type) ==
  LET kept == {t \in feedbackTimers : t.id # timeoutRefs[type]}
      id   == CHOOSE i \in FeedbackTimerIds :
                /\ \A t \in kept : t.id # i
                /\ \A ty \in CopyTypes : timeoutRefs[ty] # i
  IN
  /\ clipboardWrites[type] > 0
  /\ clipboardWrites' = [clipboardWrites EXCEPT ![type] = @ - 1]
  /\ copyStates' = [copyStates EXCEPT ![type] = TRUE]
  /\ feedbackTimers' = kept \cup {[id |-> id, type |-> type]}
  /\ timeoutRefs' = [timeoutRefs EXCEPT ![type] = id]
  /\ lastOp' = "copyDone"
  /\ UNCHANGED <<isNodeDetailsDialogOpen, closeEffectPending, appAndResizerVars>>

\* handleCopy's catch: the write has failed, which is logged
ClipboardWriteRejected(type) ==
  /\ clipboardWrites[type] > 0
  /\ clipboardWrites' = [clipboardWrites EXCEPT ![type] = @ - 1]
  /\ lastOp' = "copyFailed"
  /\ UNCHANGED <<isNodeDetailsDialogOpen, closeEffectPending, copyStates, timeoutRefs,
                 feedbackTimers, appAndResizerVars>>

\* the feedback timer's callback, COPY_FEEDBACK_DURATION after it was set
FeedbackTimeout ==
  \E t \in feedbackTimers :
    /\ feedbackTimers' = feedbackTimers \ {t}
    /\ copyStates' = [copyStates EXCEPT ![t.type] = FALSE]
    /\ timeoutRefs' = [timeoutRefs EXCEPT ![t.type] = 0]
    /\ lastOp' = "feedbackTimeout"
    /\ UNCHANGED <<isNodeDetailsDialogOpen, closeEffectPending, clipboardWrites,
                   appAndResizerVars>>

\* onClose: the dialog is hidden; its [isVisible] effect runs after the render
onClose ==
  /\ isNodeDetailsDialogOpen
  /\ isNodeDetailsDialogOpen' = FALSE
  /\ closeEffectPending' = TRUE
  /\ lastOp' = "dialogClose"
  /\ UNCHANGED <<copyStates, timeoutRefs, feedbackTimers, clipboardWrites,
                 appAndResizerVars>>

\* the effect on [isVisible] with isVisible false: the indicators are reset
\* and every timer a ref holds is cleared
ResetOnClose ==
  /\ closeEffectPending
  /\ closeEffectPending' = FALSE
  /\ copyStates' = [type \in CopyTypes |-> FALSE]
  /\ feedbackTimers' = {t \in feedbackTimers :
                          \A type \in CopyTypes : timeoutRefs[type] # t.id}
  /\ timeoutRefs' = [type \in CopyTypes |-> 0]
  /\ lastOp' = "dialogReset"
  /\ UNCHANGED <<isNodeDetailsDialogOpen, clipboardWrites, appAndResizerVars>>

NextDialog ==
  \/ handleDiagramNodeClick
  \/ \E type \in CopyTypes : handleCopy(type)
  \/ \E type \in CopyTypes : ClipboardWriteResolved(type)
  \/ \E type \in CopyTypes : ClipboardWriteRejected(type)
  \/ FeedbackTimeout
  \/ onClose
  \/ ResetOnClose

SpecDialog == Init /\ [][NextDialog]_vars

\* ------------------------------------------------------------------------
\* Properties
\* ------------------------------------------------------------------------
\* what a rebuild may replace: the nodes as built, and their expansion state
Collection(ns) ==
  [i \in 1..Len(ns) |-> [built |-> Built(ns[i]), isExpanded |-> ns[i].isExpanded]]

NodeIds(ns) == {ns[i].id : i \in 1..Len(ns)}

\* C1: a rebuild attempt whose input fails to parse (JSON.parse throws, or the
\* XML text does not start with "<" after trimming) leaves the node
\* collection, the connector collection and the node count as they were,
\* sets isEditorContentValid to false, and no exception escapes the handler.
C1_FailedParseKeepsDiagram ==
  [][(/\ lastRebuild' # "none"
      /\ processEditorContent(editorTextContent', selectedEditorType').threw)
     => /\ Collection(nodes') = Collection(nodes)
        /\ connectors' = connectors
        /\ totalNodeCount' = totalNodeCount
        /\ isEditorContentValid' = FALSE
        /\ exceptionEscaped' = FALSE]_vars

\* C1 witness: an XML-mode rebuild was refused because the text does not start
\* with "<", while a diagram is on display
C1_Witness ==
  /\ lastRebuild = "threw"
  /\ selectedEditorType = "xml"
  /\ ~startsWithLt(trim(editorTextContent))
  /\ Len(nodes) > 1
  /\ ~isEditorContentValid

\* C2: after any sequence of rebuilds the live nodes and connectors are
\* exactly those built from the most recent input that parsed: nothing of an
\* earlier document is left, nothing of the new one is missing.
C2_LastWriteWins ==
  LET g == processEditorContent(lastParsed.text, lastParsed.type).data IN
  /\ [i \in 1..Len(nodes) |-> Built(nodes[i])] = g.nodes
  /\ connectors = g.connectors

\* C2 witness: a later document has replaced the one the editor was mounted
\* with, and an input that does not parse has come after it
C2_Witness ==
  /\ lastParsed.text = JsonFlat
  /\ editorTextContent = JsonBroken
  /\ lastRebuild = "threw"
  /\ Len(nodes) = 2

\* case-insensitive containment, stated on the characters
ContainsIgnoringCase(text, q) ==
  \E off \in 0..(Len(text) - Len(q)) :
     \A j \in 1..Len(q) : LowerChar(text[off + j]) = LowerChar(q[j])

\* C3: after a search with a non-empty query q the match list is exactly the
\* ids of the Leaf nodes whose text contains q ignoring case, in collection
\* order; no Container and not the Root is in it.
C3_MatchesAreLeafHits ==
  lastOp = "search" =>
    LET hits == {i \in 1..Len(nodes) :
                   nodes[i].kind = "Leaf" /\ ContainsIgnoringCase(nodes[i].actualdata, lastQuery)}
    IN /\ Len(searchResultMatches) = Cardinality(hits)
       /\ \A m \in 1..Len(searchResultMatches) :
            \E i \in hits :
              /\ nodes[i].id = searchResultMatches[m]
              /\ Cardinality({j \in hits : j < i}) = m - 1

\* C3 witness: a query in another case than the text matched two Leaves of a
\* diagram that also has a Container
C3_Witness ==
  /\ lastOp = "search"
  /\ lastQuery = <<"h", "I">>
  /\ Len(searchResultMatches) >= 2
  /\ \E i \in 1..Len(nodes) : nodes[i].kind = "Container"

\* C4: a search with the empty query leaves the stored match list empty.
C4_EmptySearchClearsMatches ==
  lastOp = "searchEmpty" => searchResultMatches = <<>>

\* C5: right after a search with the empty query every node carries the
\* default fill, stroke and stroke width, and the toolbar counter is (0,0).
C5_EmptySearchResetsStyles ==
  lastOp = "searchEmpty" =>
    /\ \A i \in 1..Len(nodes) : nodes[i].style = DefaultStyle
    /\ searchCounter = <<0, 0>>

\* C5 witness: the empty query came after a search whose matches were
\* highlighted
C5_Witness ==
  /\ lastOp = "searchEmpty"
  /\ Len(searchResultMatches) >= 2
  /\ NodeIds(nodes) \cap Range(searchResultMatches) # {}

\* C6: after a non-empty search with a match the cursor is 0, and after it and
\* after every later advance exactly one node, matches[cursor], is focused,
\* the other matches carry the matched style, all other nodes the default.
C6_TwoTierStyling ==
  (lastOp \in {"search", "enter"} /\ searchResultMatches # <<>>) =>
    LET focusId == searchResultMatches[currentSearchMatchIndex + 1] IN
    /\ lastOp = "search" => currentSearchMatchIndex = 0
    /\ \E i \in 1..Len(nodes) : nodes[i].id = focusId /\ nodes[i].style = FocusedStyle
    /\ \A i \in 1..Len(nodes) :
         nodes[i].style =
           IF nodes[i].id = focusId THEN FocusedStyle
           ELSE IF nodes[i].id \in Range(searchResultMatches) THEN MatchedStyle
           ELSE DefaultStyle

\* C7: with n > 0 matches an advance moves the cursor to (cursor + 1) mod n and
\* keeps the match list; with no matches an advance changes nothing.
C7_AdvanceWraps ==
  [][lastOp' = "enter" =>
       IF searchResultMatches # <<>>
       THEN /\ currentSearchMatchIndex' =
                 (currentSearchMatchIndex + 1) % Len(searchResultMatches)
            /\ currentSearchMatchIndex' \in 0..(Len(searchResultMatches) - 1)
            /\ searchResultMatches' = searchResultMatches
            /\ searchCounter' = <<currentSearchMatchIndex' + 1, Len(searchResultMatches)>>
       ELSE /\ nodes' = nodes
            /\ UNCHANGED <<searchVars, searchCounter, showCounter, connectors>>]_vars

\* C7 witness: advances over three matches have wrapped back to the first
C7_Witness ==
  /\ lastOp = "enter"
  /\ Len(searchResultMatches) = 3
  /\ currentSearchMatchIndex = 0
  /\ \E i \in 1..Len(nodes) :
       nodes[i].id = searchResultMatches[1] /\ nodes[i].style = FocusedStyle

\* C8: the expand-all branch (flag true before the call) leaves no node with
\* isExpanded = false and does not modify a node that was expanded.
C8_ExpandAll ==
  [][(lastOp' = "toggle" /\ isEntireGraphCollapsed) =>
       /\ Len(nodes') = Len(nodes)
       /\ \A i \in 1..Len(nodes') : nodes'[i].isExpanded # FALSE
       /\ \A i \in 1..Len(nodes) : nodes[i].isExpanded => nodes'[i] = nodes[i]]_vars

\* C8 witness: expand-all has run on a diagram with Leaf and Container nodes
C8_Witness ==
  /\ lastOp = "toggle"
  /\ lastBranch = "expand"
  /\ Len(nodes) >= 5
  /\ \A i \in 1..Len(nodes) : nodes[i].isExpanded

\* C9: the collapse-all branch, for every root-level node (no incoming edge):
\* without an expand icon (or with shape None) the targets of its outgoing
\* connectors get isExpanded = false and its own isExpanded is unchanged;
\* with an icon the node itself gets isExpanded = false.
C9_CollapseAll ==
  [][(lastOp' = "toggle" /\ ~isEntireGraphCollapsed) =>
       \A r \in 1..Len(nodes) :
         (\A c \in 1..Len(connectors) : connectors[c].targetID # nodes[r].id) =>
           IF nodes[r].expandIcon = "None"
           THEN /\ nodes'[r].isExpanded = nodes[r].isExpanded
                /\ \A c \in 1..Len(connectors) :
                     connectors[c].sourceID = nodes[r].id =>
                       \A t \in 1..Len(nodes) :
                         nodes[t].id = connectors[c].targetID => nodes'[t].isExpanded = FALSE
           ELSE nodes'[r].isExpanded = FALSE]_vars

\* C9 witness: collapse-all has closed the children of the icon-less Root,
\* which itself is still expanded
C9_Witness ==
  /\ lastOp = "toggle"
  /\ lastBranch = "collapse"
  /\ nodes[1].id = RootId /\ nodes[1].expandIcon = "None" /\ nodes[1].isExpanded
  /\ Cardinality({i \in 1..Len(nodes) : ~nodes[i].isExpanded}) >= 3

\* C10: every toggle negates isEntireGraphCollapsed and takes the branch the
\* flag had before the call, whatever the nodes' isExpanded values are; from
\* false the branches alternate collapse-all, expand-all, collapse-all, ...
C10_ToggleAlternates ==
  /\ [](isEntireGraphCollapsed <=> toggleCount = 1)
  /\ [](lastBranch # "none" => (lastBranch = "collapse" <=> isEntireGraphCollapsed))
  /\ [][lastOp' = "toggle" =>
          /\ isEntireGraphCollapsed' = ~isEntireGraphCollapsed
          /\ lastBranch' = IF isEntireGraphCollapsed THEN "expand" ELSE "collapse"
          /\ isEntireGraphCollapsed => nodes' = ExpandAll(nodes)
          /\ ~isEntireGraphCollapsed => nodes' = CollapseAll(nodes, connectors)]_vars

\* C10 witness: the flag says "not collapsed" although a node is collapsed,
\* after a collapse-all and an expand-all have alternated
C10_Witness ==
  /\ lastBranch = "expand"
  /\ ~isEntireGraphCollapsed
  /\ \E i \in 1..Len(nodes) : ~nodes[i].isExpanded

\* C11: the whole-graph flag is kept apart from the nodes: neither a click on
\* one node's icon nor a rebuild of the document writes it, so a state with the
\* flag true and no collapsed node is reachable; the toggle that runs there
\* takes the expand-all branch and changes no node.
C11_FlagDesync ==
  /\ [][lastOp' \in {"iconClick", "edit", "switch"} =>
          isEntireGraphCollapsed' = isEntireGraphCollapsed]_vars
  /\ [][(/\ lastOp' = "toggle"
          /\ isEntireGraphCollapsed
          /\ \A i \in 1..Len(nodes) : nodes[i].isExpanded)
         => (lastBranch' = "expand" /\ nodes' = nodes)]_vars

\* C11 witness: a toggle has just run expand-all without changing any node
C11_Witness ==
  /\ lastOp = "toggle"
  /\ lastBranch = "expand"
  /\ ~toggleChangedNodes
  /\ ~isEntireGraphCollapsed
  /\ Len(nodes) > 1

\* C18: when the conversion throws during an editor-type switch the editor
\* text, the nodes and the connectors keep their values, isEditorContentValid
\* becomes false and no exception leaves the handler.
C18_ConversionFailureKeepsContent ==
  [][(/\ lastOp' = "switch"
      /\ convertEditorContent(editorTextContent, selectedEditorType,
                              selectedEditorType').threw)
     => /\ editorTextContent' = editorTextContent
        /\ nodes' = nodes
        /\ connectors' = connectors
        /\ isEditorContentValid' = FALSE
        /\ exceptionEscaped' = FALSE]_vars

\* C18 witness: a switch to XML failed on JSON text that does not parse, while
\* the diagram of an earlier document is on display
C18_Witness ==
  /\ lastOp = "switch"
  /\ selectedEditorType = "xml"
  /\ editorTextContent = JsonBroken
  /\ ~isEditorContentValid
  /\ Len(nodes) > 1

\* the anchor of the expand/collapse icons for an orientation
AnchorOf(orientation) ==
  CASE orientation = "LeftToRight" -> [x |-> 5, y |-> 10]
    [] orientation = "RightToLeft" -> [x |-> 5, y |-> 0]
    [] orientation \in {"TopToBottom", "BottomToTop"} -> [x |-> 10, y |-> 5]

\* C12: a rotation moves one step along LeftToRight, TopToBottom, RightToLeft,
\* BottomToTop, LeftToRight; the stored index and the diagram's orientation
\* move together, so they are back at their first values after every fourth
\* rotation and at no count of rotations in between.
C12_RotationCycle ==
  /\ [](/\ currentLayoutOrientationIndex = rotationCount
        /\ layoutOrientation = LAYOUT_ORIENTATIONS[rotationCount + 1]
        /\ ((currentLayoutOrientationIndex = 0 /\ layoutOrientation = "LeftToRight")
              <=> rotationCount = 0))
  /\ [][lastOp' = "rotate" =>
          /\ currentLayoutOrientationIndex' = (currentLayoutOrientationIndex + 1) % 4
          /\ layoutOrientation' =
               CASE layoutOrientation = "LeftToRight" -> "TopToBottom"
                 [] layoutOrientation = "TopToBottom" -> "RightToLeft"
                 [] layoutOrientation = "RightToLeft" -> "BottomToTop"
                 [] layoutOrientation = "BottomToTop" -> "LeftToRight"]_vars

\* C12 witness: a rotation has brought the layout back to LeftToRight
C12_Witness ==
  /\ lastOp = "rotate"
  /\ rotationCount = 0
  /\ currentLayoutOrientationIndex = 0
  /\ layoutOrientation = "LeftToRight"

\* C13: right after a rotation to orientation o both icon offsets of every
\* node are the anchor of o: (0.5, 1) for LeftToRight, (0.5, 0) for
\* RightToLeft, (1, 0.5) for TopToBottom and BottomToTop.
C13_RotationRepositionsIcons ==
  lastOp = "rotate" =>
    \A i \in 1..Len(nodes) :
      /\ nodes[i].expandIconOffset = AnchorOf(layoutOrientation)
      /\ nodes[i].collapseIconOffset = AnchorOf(layoutOrientation)

\* C13 witness: a rotation to RightToLeft over a diagram with a Container
\* that shows its icon
C13_Witness ==
  /\ lastOp = "rotate"
  /\ layoutOrientation = "RightToLeft"
  /\ \E i \in 1..Len(nodes) :
       /\ nodes[i].kind = "Container"
       /\ nodes[i].expandIcon = "Minus"
       /\ nodes[i].expandIconOffset = [x |-> 5, y |-> 0]

C16_HiddenCountTakesNoWidth ==
  (~shouldShowChildItemsCount /\ pendingRefresh = 0) =>
    \A i \in 1..Len(nodes) :
      nodes[i].kind = "Container" =>
        /\ ~nodes[i].countVisible
        /\ nodes[i].width =
             Max(CharWidth * Len(CharsOf[nodes[i].key]) + 10 + 2 * 36, 50)

\* every Container shows what the two display options say
NodesReflectOptions ==
  \A i \in 1..Len(nodes) :
    nodes[i].kind = "Container" =>
      /\ nodes[i].countVisible = shouldShowChildItemsCount
      /\ (nodes[i].expandIcon = "Minus") = shouldDisplayExpandCollapseIcons

\* C19: a toggle of "view-count" or "expand-collapse" flips that flag only,
\* leaves the nodes alone and starts one timer; a toggle of "view-grid" flips
\* the grid flag only and starts none. The re-layout runs as a step of its
\* own, with the flags as the toggles left them.
C19_ViewOptionDeferredRefresh ==
  /\ [][lastOp' = "viewToggle" =>
          /\ nodes' = nodes
          /\ shouldShowGridLines' = (shouldShowGridLines # (lastOption' = "view-grid"))
          /\ shouldShowChildItemsCount' =
               (shouldShowChildItemsCount # (lastOption' = "view-count"))
          /\ shouldDisplayExpandCollapseIcons' =
               (shouldDisplayExpandCollapseIcons # (lastOption' = "expand-collapse"))
          /\ pendingRefresh' =
               pendingRefresh + (IF lastOption' = "view-grid" THEN 0 ELSE 1)]_vars
  /\ [][lastOp' = "deferredRefresh" =>
          /\ pendingRefresh > 0
          /\ pendingRefresh' = pendingRefresh - 1
          /\ UNCHANGED viewVars
          /\ NodesReflectOptions']_vars
  /\ [](pendingRefresh = 0 => NodesReflectOptions)

\* C19 witness: the re-layout after "view-count" was switched off has run
C19_Witness ==
  /\ lastOp = "deferredRefresh"
  /\ lastOption = "view-count"
  /\ ~shouldShowChildItemsCount
  /\ pendingRefresh = 0
  /\ \E i \in 1..Len(nodes) : nodes[i].kind = "Container" /\ ~nodes[i].countVisible

\* C17: colour and display form of a raw value agree. Numeric colour goes
\* with the unchanged, unquoted text; "true" / "false" in any case get the
\* boolean colours (different for true and false) and are shown lower-cased
\* and unquoted; every other value gets the string colour and is shown in
\* double quotes unless it already starts and ends with one.
C17_ColourAgreesWithDisplay ==
  valueRuns = 1 =>
    LET raw     == rawValueText
        lower   == [i \in 1..Len(raw) |-> LowerChar(raw[i])]
        quoted  == Len(raw) >= 1 /\ raw[1] = "\"" /\ raw[Len(raw)] = "\""
        wrapped == <<"\"">> \o raw \o <<"\"">>
    IN IF valueTextColor = "numericColor" THEN valueDisplayText = raw
       ELSE IF lower = <<"t", "r", "u", "e">>
       THEN valueTextColor = "booleanColor" /\ valueDisplayText = lower
       ELSE IF lower = <<"f", "a", "l", "s", "e">>
       THEN valueTextColor = "red" /\ valueDisplayText = lower
       ELSE /\ valueTextColor = "textValueColor"
            /\ valueDisplayText = IF quoted THEN raw ELSE wrapped

\* the ids reachable from the Root of the graph (ns, cs) in at most k edges
RECURSIVE ReachableIds(_, _)
ReachableIds(cs, k) ==
  IF k = 0 THEN {RootId}
  ELSE LET R == ReachableIds(cs, k - 1)
       IN R \cup {cs[i].targetID : i \in {j \in 1..Len(cs) : cs[j].sourceID \in R}}

IncomingEdges(cs, id) == {i \in 1..Len(cs) : cs[i].targetID = id}

\* C20: the graph built for every document has exactly one Root node, with id
\* "main-root"; every other node has exactly one incoming edge and the Root
\* has none; every edge's source and target are nodes of the graph; and the
\* graph is a tree reachable from the Root (edges = nodes - 1, every node is
\* reached from the Root, node ids are distinct).
C20_BuiltGraphIsTree ==
  lastOp = "mount" =>
    /\ lastRebuild = "built"
    /\ Cardinality({i \in 1..Len(nodes) : nodes[i].kind = "Root"}) = 1
    /\ \A i \in 1..Len(nodes) : nodes[i].kind = "Root" <=> nodes[i].id = RootId
    /\ \A i, j \in 1..Len(nodes) : nodes[i].id = nodes[j].id => i = j
    /\ \A i \in 1..Len(nodes) :
         Cardinality(IncomingEdges(connectors, nodes[i].id))
           = (IF nodes[i].kind = "Root" THEN 0 ELSE 1)
    /\ \A c \in 1..Len(connectors) :
         /\ connectors[c].sourceID \in NodeIds(nodes)
         /\ connectors[c].targetID \in NodeIds(nodes)
    /\ Len(connectors) = Len(nodes) - 1
    /\ ReachableIds(connectors, Len(nodes)) = NodeIds(nodes)

\* a mounted document whose graph has a Container below the Root and a Leaf
\* below that Container: a tree of depth two with three edges or more
C20_Witness ==
  /\ lastOp = "mount"
  /\ Len(nodes) >= 4
  /\ \E c \in 1..Len(connectors) :
       /\ connectors[c].sourceID # RootId
       /\ \E n \in 1..Len(nodes) :
            nodes[n].id = connectors[c].targetID /\ nodes[n].kind = "Leaf"

\* a Leaf whose annotations are all folded key/value pairs
IsFoldedLeaf(n) ==
  /\ n.kind = "Leaf"
  /\ n.pairs # <<>>
  /\ \A p \in 1..Len(n.pairs) : n.pairs[p].k # ""

\* the measured width of line p of the Leaf n: key, three spaces, value text
LineWidth(n, p) == CharWidth * (Len(CharsOf[n.pairs[p].k]) + 3 + Len(n.content[p]))

\* C15: after layout, a Leaf with n folded key/value pairs is
\* max(widest line + 10, 50) wide, with no icon allowance, and
\* max(16 * n + 20, 40) high; every non-root node is at least 50 wide and 40
\* high; the Root is 40 x 40.
C15_LeafDimensions ==
  lastOp = "mount" =>
    \A i \in 1..Len(nodes) :
      LET n == nodes[i] IN
      /\ n.kind = "Root" => (n.width = 40 /\ n.height = 40)
      /\ n.kind # "Root" => (n.width >= 50 /\ n.height >= 40)
      /\ IsFoldedLeaf(n) =>
           /\ \E p \in 1..Len(n.pairs) :
                /\ \A q \in 1..Len(n.pairs) : LineWidth(n, q) <= LineWidth(n, p)
                /\ n.width = (IF LineWidth(n, p) + 10 >= 50 THEN LineWidth(n, p) + 10 ELSE 50)
           /\ n.height = (IF 16 * Len(n.pairs) + 20 >= 40 THEN 16 * Len(n.pairs) + 20 ELSE 40)

\* a mounted document with a two-line Leaf above both minimums (66 x 52,
\* its widest line being a quoted string) next to the 40 x 40 Root
C15_Witness ==
  /\ lastOp = "mount"
  /\ \E i \in 1..Len(nodes) :
       /\ IsFoldedLeaf(nodes[i])
       /\ Len(nodes[i].pairs) = 2
       /\ nodes[i].width = 66
       /\ nodes[i].height = 52
  /\ \E i \in 1..Len(nodes) :
       nodes[i].kind = "Root" /\ nodes[i].width = 40 /\ nodes[i].height = 40

\* the Containers of the document v whose node sits at id, each with its id
RECURSIVE ContainersOf(_, _)
ContainersOf(id, v) ==
  IF IsScalar(v) THEN {}
  ELSE {[id |-> id, v |-> v]}
       \cup UNION {ContainersOf(Append(id, v.kids[i].k), v.kids[i].v) : i \in 1..Len(v.kids)}

\* the positions in nodes of the nodes an edge leads to from the node id
ChildNodes(id) ==
  {n \in 1..Len(nodes) :
     \E c \in 1..Len(connectors) :
       connectors[c].sourceID = id /\ connectors[c].targetID = nodes[n].id}

AllScalar(kids) == \A i \in 1..Len(kids) : IsScalar(kids[i].v)

\* C21: folding law. In the graph built for a document, a Container all of
\* whose direct children are scalars has at most one child node, a single
\* Leaf with one (key, value) pair per scalar child in document order (none
\* when it has no children); a Container with a non-scalar child has one
\* child node per direct child, a one-pair Leaf for a scalar and a Container
\* for an object or array, and no Leaf holding more than one pair.
C21_FoldingLaw ==
  lastOp = "mount" =>
    \A c \in ContainersOf(RootId, document) :
      LET kids == c.v.kids
          ch   == ChildNodes(c.id)
      IN IF AllScalar(kids)
         THEN /\ Cardinality(ch) <= 1
              /\ kids = <<>> => ch = {}
              /\ kids # <<>> =>
                   \E n \in ch :
                     /\ nodes[n].kind = "Leaf"
                     /\ nodes[n].pairs = [i \in 1..Len(kids) |-> Pair(kids[i].k, kids[i].v.s)]
         ELSE /\ Cardinality(ch) = Len(kids)
              /\ \A n \in ch : nodes[n].kind = "Leaf" => Len(nodes[n].pairs) = 1
              /\ \A i \in 1..Len(kids) :
                   \E n \in ch :
                     /\ nodes[n].id = Append(c.id, kids[i].k)
                     /\ IF IsScalar(kids[i].v)
                        THEN /\ nodes[n].kind = "Leaf"
                             /\ nodes[n].pairs = <<Pair(kids[i].k, kids[i].v.s)>>
                        ELSE /\ nodes[n].kind = "Container"
                             /\ nodes[n].key = kids[i].k

\* a mounted document whose top level is mixed (a scalar and a container side
\* by side, each with its own node) and whose inner container is all-scalar
\* and folded into one Leaf
C21_Witness ==
  /\ lastOp = "mount"
  /\ ~IsScalar(document)
  /\ ~AllScalar(document.kids)
  /\ \E i \in 1..Len(document.kids) : IsScalar(document.kids[i].v)
  /\ \E c \in ContainersOf(RootId, document) :
       /\ c.id # RootId
       /\ c.v.kids # <<>>
       /\ AllScalar(c.v.kids)
       /\ \E n \in ChildNodes(c.id) : nodes[n].kind = "Leaf"

ConnectorIds(cs) == {cs[i].id : i \in 1..Len(cs)}

\* the graph a build of the input last parsed yields when run on its own
FreshBuild == processEditorContent(lastParsed.text, lastParsed.type).data

IsRootLevel(i) == \A c \in 1..Len(connectors) : connectors[c].targetID # nodes[i].id

\* node i is the target of a connector that leaves node r
IsChildOf(i, r) ==
  \E c \in 1..Len(connectors) :
    connectors[c].sourceID = nodes[r].id /\ connectors[c].targetID = nodes[i].id

\* C23: the collapse-all branch adds and removes no node and no connector and
\* writes nothing but isExpanded; a node whose isExpanded changes is a
\* root-level node with a visible expand icon or a direct child of an
\* icon-less root-level node. The synthetic Root and every node two or more
\* edges below a root-level node keep their isExpanded.
C23_CollapseAllFrame ==
  [][(lastOp' = "toggle" /\ ~isEntireGraphCollapsed) =>
       /\ Len(nodes') = Len(nodes)
       /\ connectors' = connectors
       /\ \A i \in 1..Len(nodes) :
            /\ [nodes'[i] EXCEPT !.isExpanded = nodes[i].isExpanded] = nodes[i]
            /\ nodes'[i].isExpanded # nodes[i].isExpanded =>
                 \/ IsRootLevel(i) /\ nodes[i].expandIcon # "None"
                 \/ \E r \in 1..Len(nodes) :
                      IsRootLevel(r) /\ nodes[r].expandIcon = "None" /\ IsChildOf(i, r)
            /\ nodes[i].id = RootId => nodes'[i].isExpanded = nodes[i].isExpanded
            /\ (~IsRootLevel(i) /\ \A r \in 1..Len(nodes) : IsChildOf(i, r) => ~IsRootLevel(r))
                 => nodes'[i].isExpanded = nodes[i].isExpanded]_vars

\* collapse-all has run on a diagram three levels deep: the children of the
\* icon-less Root are collapsed, the Root and a node two edges below it are
\* still expanded
C23_Witness ==
  /\ lastOp = "toggle"
  /\ lastBranch = "collapse"
  /\ toggleChangedNodes
  /\ \E r, i, j \in 1..Len(nodes) :
       /\ nodes[r].id = RootId /\ nodes[r].isExpanded
       /\ IsChildOf(i, r) /\ ~nodes[i].isExpanded
       /\ IsChildOf(j, i) /\ nodes[j].isExpanded

FractionIs(f, num, den) == f.num * den = num * f.den
FractionLess(f, g) == f.num * g.den < g.num * f.den

C26_RebuildHidesSpinner ==
  lastRebuild # "none" => isLoadingSpinnerVisible = FALSE

\* C30: the selected editor type changes only when the conversion succeeds:
\* a type switch whose conversion throws leaves the selected type as it was.
C30_FailedSwitchKeepsType ==
  [][(/\ lastOp' = "switch"
      /\ convertEditorContent(editorTextContent, selectedEditorType,
                              selectedEditorType').threw)
       => selectedEditorType' = selectedEditorType]_vars

\* C28: the splitter changes the left-panel width only during a drag. A mouse
\* move outside a drag changes nothing; at most one throttled update is
\* pending at any time, and none outside a drag; the mouse up that ends a
\* drag cancels the pending update; the width is written by a throttled
\* update only, and only while the drag is on.
C28_ResizeOnlyWhileDragging ==
  /\ [](Cardinality(throttleTimers) <= 1)
  /\ [](~isDraggingRef => throttleTimers = {})
  /\ [][(lastOp' = "mouseMove" /\ ~isDraggingRef) => UNCHANGED resizerVars]_vars
  /\ [][(lastOp' = "mouseUp" /\ isDraggingRef) =>
          (~isDraggingRef' /\ throttleTimers' = {})]_vars
  /\ [][lastOp' = "throttledUpdate" => (isDraggingRef /\ isDraggingRef')]_vars
  /\ [][leftPanelWidth' # leftPanelWidth => (lastOp' = "throttledUpdate" /\ isDraggingRef)]_vars

\* a drag has ended by a mouse up that cancelled a scheduled update: the
\* panel has the width an earlier update of the drag gave it, nothing is
\* pending
C28_Witness ==
  /\ lastOp = "mouseUp"
  /\ ~isDraggingRef
  /\ throttleTimers = {}
  /\ throttleTimeoutRef = 0
  /\ cancelledUpdate
  /\ leftPanelWidth = 5

\* C27: whenever the Node Details dialog is not visible and its close effect
\* has run, both copy indicators are false and no feedback timer is pending;
\* and at most one feedback timer per indicator is ever pending.
C27_ClosedDialogShowsNoFeedback ==
  /\ (~isNodeDetailsDialogOpen /\ ~closeEffectPending) =>
       /\ \A type \in CopyTypes : copyStates[type] = FALSE
       /\ feedbackTimers = {}
  /\ \A type \in CopyTypes :
       Cardinality({t \in feedbackTimers : t.type = type}) <= 1

\* C29: configuring a Value annotation that has been configured before leaves
\* its displayed text as it is (no second pair of quotes) and leaves its
\* colour class as it is.
C29_ValueConfigurationIdempotent ==
  [][valueRuns >= 1 =>
       /\ valueDisplayText' = valueDisplayText
       /\ valueTextColor' = valueTextColor]_vars
====
